---------------------------- MODULE Spec2Model ----------------------------
(***************************************************************************)
(* Model of the quota-aware planning/execution engine of the invoice      *)
(* assistant:                                                              *)
(*   - LLMRateLimiter   (src/src/modules/pipeline/llm/rate_limiter.py)     *)
(*   - SQLiteMCPServer  (src/src/modules/assistant/mcp_server.py)          *)
(*   - the model-call helpers that reserve quota                           *)
(*     (src/src/modules/assistant/orchestrator.py, groq_client.py)         *)
(*                                                                         *)
(* Time is counted in tenths of a second, so that the 0.1 s slack the      *)
(* limiter adds to its sleeps is one unit.  An entry stores its age        *)
(* (now - entry["timestamp"]) instead of the absolute timestamp; every     *)
(* comparison the code makes is a comparison of an age with a constant.    *)
(***************************************************************************)
EXTENDS Integers, Sequences, FiniteSets, TLC

\* ------------------------------------------------------------------ bounds
NumThreads == 2
MaxCalls == 3
MaxRecords == 1
MaxInvocations == 1
MaxQueries == 3
MaxLead == 4
MaxStmt == 3
\* the four configured ceilings (constructor arguments of LLMRateLimiter)
rpm_limit == 2
rpd_limit == 2
tpm_limit == 4
tpd_limit == 6

\* ------------------------------------------------- constants of the program
MINUTE == 600
DAY == 864000
SLEEP_FLOOR == 10
DAY_WAIT == 600
SLACK == 1
QUERY_CACHE_TTL_SECONDS == 60
MAX_RESULT_ROWS == 500

Threads == 1..NumThreads
Tags == {"assistant_plan_attempt_1", "assistant_summary"}
EstTokens == {1, tpm_limit - 1}
OversizeTokens == {tpm_limit + 1}
PromptTokens == {2}
CompletionTokens == {0, tpm_limit + 1}
EntryIds == 0..(MaxCalls - 1)
HALF_MINUTE == MINUTE \div 2
NoThread == 0

VARIABLES
    minute_requests,   \* deque of entry ids, oldest first
    day_requests,      \* deque of entry ids, oldest first
    entries,           \* keys of self._entries
    entry,             \* the entry objects, by id: [age, tokens, tag]
    next_id,           \* self._next_id
    usage_breakdown,   \* self._usage_breakdown: tag -> [requests, prompt_tokens, completion_tokens]
    lock,              \* thread holding self.lock, or NoThread
    pc,                \* per thread: "idle" | "lock_wait" | "check" | "sleep"
    call,              \* per thread: arguments and progress of its check_and_wait call
    calls,             \* check_and_wait calls started so far
    records,           \* record_actual_tokens calls made so far
    client,            \* per thread: the model call (_call_groq, chat_completion) it runs
    invocations,       \* model calls started so far
    query_cache,       \* self._query_cache: key -> [age, payload]
    store,             \* the backing store: rows each statement matches now
    sb,                \* per thread: the execute_query call it runs
    queries,           \* execute_query calls started so far
    submitted,         \* the text handed to _validate_query
    verdict,           \* what _validate_query returned for it
    cache,             \* ResponseCache.cache: key -> [answer, age, fingerprint]
    gets,              \* per ResponseCache.get call so far: the answer returned and its age
    orch,              \* the process_question call that runs: its locals and position
    trace,             \* what that call has done: lookups, admissions, executions
    asked,             \* process_question calls started so far
    exec,              \* the _execute_plan or call_tool call that runs
    _rate_limiter,     \* the module's global: 0 for None, or the instance it holds
    instances,         \* LLMRateLimiter objects constructed so far
    getter,            \* per thread: the get_rate_limiter call it runs
    obtained,          \* what the get_rate_limiter calls returned, with the resets around them
    resets             \* reset_rate_limiter calls so far

limiter_vars == <<minute_requests, day_requests, entries, entry, next_id,
                  usage_breakdown, lock>>
thread_vars == <<pc, call, calls, records>>
client_vars == <<client, invocations>>
sandbox_vars == <<query_cache, store, sb, queries>>
validation_vars == <<submitted, verdict>>
response_cache_vars == <<cache, gets>>
orchestrator_vars == <<orch, trace, asked>>
assistant_vars == <<response_cache_vars, orchestrator_vars>>
execution_vars == <<exec>>
singleton_vars == <<_rate_limiter, instances, getter, obtained, resets>>
llm_vars == <<limiter_vars, thread_vars, client_vars>>
\* what the limiter and the model calls leave alone
other_vars == <<sandbox_vars, validation_vars, assistant_vars, execution_vars,
                singleton_vars>>
\* what the limiter's own operations leave alone
non_limiter_vars == <<client_vars, other_vars>>
non_sandbox_vars == <<llm_vars, validation_vars, assistant_vars, execution_vars,
                      singleton_vars>>
non_validation_vars == <<llm_vars, sandbox_vars, assistant_vars, execution_vars,
                         singleton_vars>>
non_assistant_vars == <<llm_vars, sandbox_vars, validation_vars, execution_vars,
                        singleton_vars>>
non_execution_vars == <<llm_vars, sandbox_vars, validation_vars, assistant_vars,
                        singleton_vars>>
non_singleton_vars == <<llm_vars, sandbox_vars, validation_vars, assistant_vars,
                        execution_vars>>
vars == <<llm_vars, sandbox_vars, validation_vars, assistant_vars, execution_vars,
          singleton_vars>>

Min(S) == CHOOSE x \in S : \A y \in S : x <= y
Max(S) == CHOOSE x \in S : \A y \in S : x >= y
Range(s) == {s[i] : i \in DOMAIN s}

RECURSIVE SumTokens(_, _)
SumTokens(e, s) ==
    IF s = <<>> THEN 0 ELSE e[Head(s)].tokens + SumTokens(e, Tail(s))

\* ------------------------------------------------------- _cleanup_old_entries
\* the `while deque and deque[0]["timestamp"] < limit: popleft()` loop
PopExpired(e, s, limit) ==
    LET first == {i \in DOMAIN s : e[s[i]].age <= limit}
    IN  IF first = {} THEN <<>> ELSE SubSeq(s, Min(first), Len(s))

\* a minute window that lets entries go after half a minute
CleanMinute_half(e, mr) == PopExpired(e, mr, MINUTE \div 2)
\* a minute window that never lets an entry go
CleanMinute_never(e, mr) == mr
CleanMinute(e, mr) == PopExpired(e, mr, MINUTE)
CleanDay(e, dr) == PopExpired(e, dr, DAY)
\* a cleanup that leaves the lookup table alone
CleanEntries_keeps(e, dr, es) == es
CleanEntries(e, dr, es) == es \ (Range(dr) \ Range(CleanDay(e, dr)))

\* ------------------------------------------------------------ _current_usage
CurrentUsage(e, mr, dr) ==
    [rpm |-> Len(mr), rpd |-> Len(dr),
     tpm |-> SumTokens(e, mr), tpd |-> SumTokens(e, dr)]

rpm_ok(u) == u.rpm < rpm_limit
rpd_ok(u) == u.rpd < rpd_limit
\* a token check that leaves the new call's estimate out
tpm_ok_without_estimate(u, est) == u.tpm <= tpm_limit
tpm_ok(u, est) == u.tpm + est <= tpm_limit
tpd_ok(u, est) == u.tpd + est <= tpd_limit
\* an admission test that looks at the request counts only
Admissible_requests_only(u, est) == rpm_ok(u) /\ rpd_ok(u)
Admissible(u, est) == rpm_ok(u) /\ rpd_ok(u) /\ tpm_ok(u, est) /\ tpd_ok(u, est)

\* wait_time of one failed pass (lines 150-175)
WaitTime(e, mr, u, est) ==
    LET untilOldest == (MINUTE - e[Head(mr)].age) + SLACK
        w1 == IF ~rpm_ok(u) /\ mr # <<>> THEN Max({SLEEP_FLOOR, untilOldest}) ELSE SLEEP_FLOOR
        w2 == IF ~rpd_ok(u) THEN Max({w1, DAY_WAIT}) ELSE w1
        w3 == IF ~tpm_ok(u, est) /\ mr # <<>> THEN Max({w2, untilOldest}) ELSE w2
        w4 == IF ~tpd_ok(u, est) THEN Max({w3, DAY_WAIT}) ELSE w3
    IN  w4

NewStats == [requests |-> 0, prompt_tokens |-> 0, completion_tokens |-> 0]
\* dict.setdefault(tag, {...})
SetDefault(ub, tag) ==
    [t \in DOMAIN ub \cup {tag} |-> IF t \in DOMAIN ub THEN ub[t] ELSE NewStats]

IdleCall == [est |-> 0, tag |-> "", waited |-> FALSE, sleep_left |-> 0]

NoEntry == [age |-> 0, tokens |-> 0, tag |-> "", finalized |-> FALSE]

\* entry objects no deque and no lookup key refers to are unreachable
Collect(e, mr, dr, es) ==
    [i \in (Range(mr) \cup Range(dr) \cup es) \cap DOMAIN e |-> e[i]]

\* a thread that runs no model call; entry_id -1 is None
IdleClient == [pc |-> "idle", fn |-> "", est |-> 0, tag |-> "", attempts |-> 0,
               entry_id |-> -1, owned |-> {}, outcome |-> ""]

\* ------------------------------------------------------------- SQL strings
\* A string is the sequence of its characters.
Select == <<"S", "e", "l", "e", "c", "t">>
pragma == <<"p", "r", "a", "g", "m", "a">>
DELETE == <<"D", "E", "L", "E", "T", "E">>
Drop == <<"D", "r", "o", "p">>

\* config.py lines 42-54
ALLOWED_SQL_KEYWORDS ==
    {<<"S", "E", "L", "E", "C", "T">>, <<"P", "R", "A", "G", "M", "A">>,
     <<"E", "X", "P", "L", "A", "I", "N">>}
FORBIDDEN_SQL_KEYWORDS ==
    {<<"I", "N", "S", "E", "R", "T">>, <<"U", "P", "D", "A", "T", "E">>,
     <<"D", "E", "L", "E", "T", "E">>, <<"D", "R", "O", "P">>,
     <<"C", "R", "E", "A", "T", "E">>, <<"A", "L", "T", "E", "R">>,
     <<"T", "R", "U", "N", "C", "A", "T", "E">>,
     <<"R", "E", "P", "L", "A", "C", "E">>, <<"A", "T", "T", "A", "C", "H">>,
     <<"D", "E", "T", "A", "C", "H">>}

\* the characters str.strip, str.lstrip and str.split take for white space
Whitespace == {" ", "\n", "\t"}

LowerCase == <<"a", "b", "c", "d", "e", "f", "g", "h", "i", "j", "k", "l", "m",
               "n", "o", "p", "q", "r", "s", "t", "u", "v", "w", "x", "y", "z">>
UpperCase == <<"A", "B", "C", "D", "E", "F", "G", "H", "I", "J", "K", "L", "M",
               "N", "O", "P", "Q", "R", "S", "T", "U", "V", "W", "X", "Y", "Z">>
upper_char(c) ==
    IF \E i \in DOMAIN LowerCase : LowerCase[i] = c
    THEN UpperCase[CHOOSE i \in DOMAIN LowerCase : LowerCase[i] = c]
    ELSE c
\* str.upper
upper(s) == [i \in DOMAIN s |-> upper_char(s[i])]

RECURSIVE lstrip(_)
lstrip(s) == IF s # <<>> /\ Head(s) \in Whitespace THEN lstrip(Tail(s)) ELSE s
RECURSIVE rstrip(_)
rstrip(s) ==
    IF s # <<>> /\ s[Len(s)] \in Whitespace
    THEN rstrip(SubSeq(s, 1, Len(s) - 1))
    ELSE s
strip(s) == rstrip(lstrip(s))

startswith(s, prefix) ==
    Len(s) >= Len(prefix) /\ SubSeq(s, 1, Len(prefix)) = prefix

\* 0-based positions at which sub occurs in s
Occurrences(s, sub) ==
    {i \in 0..(Len(s) - Len(sub)) : SubSeq(s, i + 1, i + Len(sub)) = sub}
\* str.find: the lowest position, -1 when there is none
find(s, sub) == IF Occurrences(s, sub) = {} THEN -1 ELSE Min(Occurrences(s, sub))
\* `sub in s`
contains(s, sub) == Occurrences(s, sub) # {}
\* s[start:], start 0-based
From(s, start) == SubSeq(s, start + 1, Len(s))

\* ---------------------------------------------------------- _validate_query
\* the `while cleaned:` loop that removes leading comments (lines 489-504)
RECURSIVE RemoveLeadingComments(_)
RemoveLeadingComments(cleaned) ==
    IF cleaned = <<>>
    THEN [malformed |-> FALSE, cleaned |-> <<>>]
    ELSE IF startswith(cleaned, <<"-", "-">>)
    THEN LET newline_idx == find(cleaned, <<"\n">>)
         IN  IF newline_idx = -1
             THEN [malformed |-> FALSE, cleaned |-> <<>>]
             ELSE RemoveLeadingComments(lstrip(From(cleaned, newline_idx + 1)))
    ELSE IF startswith(cleaned, <<"/", "*">>)
    THEN LET end_idx == find(cleaned, <<"*", "/">>)
         IN  IF end_idx = -1
             THEN [malformed |-> TRUE, cleaned |-> cleaned]
             ELSE RemoveLeadingComments(lstrip(From(cleaned, end_idx + 2)))
    ELSE [malformed |-> FALSE, cleaned |-> cleaned]

Rejected(error_msg) == [valid |-> FALSE, error |-> error_msg]

_validate_query(sql) ==
    LET r == RemoveLeadingComments(strip(sql))
        sql_upper == upper(r.cleaned)
    IN  IF r.malformed
        THEN Rejected("Malformed comment block")
        ELSE IF r.cleaned = <<>>
        THEN Rejected("Query is empty after removing comments")
        ELSE IF \E keyword \in FORBIDDEN_SQL_KEYWORDS : contains(sql_upper, keyword)
        THEN Rejected("Operacion no permitida")
        ELSE IF ~ \E kw \in ALLOWED_SQL_KEYWORDS : startswith(sql_upper, kw)
        THEN Rejected("Query debe comenzar con: SELECT, PRAGMA, EXPLAIN")
        ELSE [valid |-> TRUE, error |-> ""]

\* no verdict yet
NoVerdict == [valid |-> FALSE, error |-> "not validated"]

\* the strings the validator is tried on: a run of comment material followed
\* by a run of statement material
CommentFragments == {<<"/", "*">>, <<"*", "/">>, <<"/">>, <<"-", "-">>, <<"\n">>}
StatementFragments == {Select, pragma, DELETE, <<"x">>, <<" ">>, <<"\n">>}

RECURSIVE Concats(_, _)
Concats(F, n) ==
    IF n = 0 THEN {<<>>}
    ELSE LET shorter == Concats(F, n - 1)
         IN  shorter \cup {a \o f : a \in shorter, f \in F}

SqlInputs ==
    {lead \o stmt : lead \in Concats(CommentFragments, MaxLead),
                    stmt \in Concats(StatementFragments, MaxStmt)}

\* ------------------------------------------------- the sandbox's query cache
\* str.split(): the words between runs of white space
RECURSIVE split(_)
split(s) ==
    LET t == lstrip(s)
        stops == {i \in DOMAIN t : t[i] \in Whitespace}
        n == IF stops = {} THEN Len(t) + 1 ELSE Min(stops)
    IN  IF t = <<>> THEN <<>>
        ELSE <<SubSeq(t, 1, n - 1)>> \o split(SubSeq(t, n, Len(t)))

RECURSIVE join(_, _)
join(sep, words) ==
    IF words = <<>> THEN <<>>
    ELSE IF Len(words) = 1 THEN words[1]
    ELSE words[1] \o sep \o join(sep, Tail(words))

_normalize_sql(sql) == join(<<" ">>, split(strip(sql)))
\* the md5 digest of the normalized text: distinct texts, distinct keys
_cache_key(sql) == _normalize_sql(sql)

CACHE_TTL == QUERY_CACHE_TTL_SECONDS * 10

\* the query texts callers submit
Queries ==
    {Select, <<" ">> \o Select \o <<"\n">>,
     Drop, <<"/", "*">> \o Select, <<"-", "-">> \o Select}
Keys == {_cache_key(q) : q \in {x \in Queries : _validate_query(x).valid}}
\* how many rows a statement can match in the backing store
RowCounts == {0, MAX_RESULT_ROWS, MAX_RESULT_ROWS + 1, MAX_RESULT_ROWS + 100}

NoPayload == [success |-> FALSE, error |-> "no result"]
\* a thread that runs no execute_query; matching, cache_read, cache_changed
\* and executed record what the call has done so far
IdleQuery == [pc |-> "idle", sql |-> <<>>, result |-> NoPayload, raised |-> "",
              matching |-> 0, cache_read |-> FALSE, cache_changed |-> FALSE,
              executed |-> FALSE]

QuotaInit ==
    /\ minute_requests = <<>>
    /\ day_requests = <<>>
    /\ entries = {}
    /\ entry = [i \in {} |-> NoEntry]
    /\ next_id = 0
    /\ usage_breakdown = [t \in {} |-> NewStats]
    /\ lock = NoThread
    /\ pc = [t \in Threads |-> "idle"]
    /\ call = [t \in Threads |-> IdleCall]
    /\ calls = 0
    /\ records = 0
    /\ client = [t \in Threads |-> IdleClient]
    /\ invocations = 0

\* ------------------------------------------------ the answer cache's data
\* time-to-live of an answer, in seconds
ttl_seconds == 300
MaxGets == 2

lower_char(c) ==
    IF \E i \in DOMAIN UpperCase : UpperCase[i] = c
    THEN LowerCase[CHOOSE i \in DOMAIN UpperCase : UpperCase[i] = c]
    ELSE c
\* str.lower
lower(s) == [i \in DOMAIN s |-> lower_char(s[i])]

\* the md5 digest is kept as the text it digests
_generate_key(question) == strip(lower(question))

Questions == {<<"H", "i">>, <<" ", "h", "i", "\n">>, <<"q">>}
Answers == {"a1", "a2"}
\* a fingerprint is a sequence; None and the empty string are the empty one
NoFingerprint == <<>>
Fingerprints == {NoFingerprint, <<"f", "1">>, <<"f", "2">>}
NoCached == [answer |-> "", age |-> 0, fingerprint |-> NoFingerprint]
\* truth value of an optional string
Truthy(fingerprint) == fingerprint # <<>>

\* ResponseCache.get: the cache it leaves and the entry it returns
expired_after(age) == age > ttl_seconds
expired(age) == age >= ttl_seconds
get_miss(c, question, fingerprint) == [cache |-> c, found |-> FALSE, entry |-> NoCached]
get(c, question, fingerprint) ==
    LET key == _generate_key(question) IN
    IF key \notin DOMAIN c
    THEN [cache |-> c, found |-> FALSE, entry |-> NoCached]
    ELSE IF expired(c[key].age)
    THEN [cache |-> [k \in DOMAIN c \ {key} |-> c[k]], found |-> FALSE,
          entry |-> NoCached]
    ELSE IF Truthy(fingerprint) /\ Truthy(c[key].fingerprint)
            /\ fingerprint # c[key].fingerprint
    THEN [cache |-> c, found |-> FALSE, entry |-> NoCached]
    ELSE [cache |-> c, found |-> TRUE, entry |-> c[key]]

\* ResponseCache.set
set(c, question, answer, fingerprint) ==
    LET key == _generate_key(question) IN
    [k \in DOMAIN c \cup {key} |->
        IF k = key
        THEN [answer |-> answer, age |-> 0, fingerprint |-> fingerprint]
        ELSE c[k]]

\* ------------------------------------------------ the orchestrator's data
MAX_PLAN_ATTEMPTS == 4
MaxQuestions == 2
DISABLE_FALLBACK == FALSE

hola == <<"h", "o", "l", "a">>
gracias == <<"g", "r", "a", "c", "i", "a", "s">>
greetings ==
    { hola,
      <<"b", "u", "e", "n", "a", "s">>,
      <<"b", "u", "e", "n", "a", "s", " ", "t", "a", "r", "d", "e", "s">>,
      <<"b", "u", "e", "n", " ", "d", "í", "a">>,
      <<"h", "e", "l", "l", "o">> }
thanks ==
    { gracias,
      <<"m", "u", "c", "h", "a", "s", " ", "g", "r", "a", "c", "i", "a", "s">> }

\* _try_local_response: the reply, or no reply
NoReply == [success |-> FALSE, answer |-> "", cached |-> FALSE, local |-> FALSE]
LocalReply(answer) == [success |-> TRUE, answer |-> answer, cached |-> FALSE, local |-> TRUE]
_try_local_response_none(question) == NoReply
_try_local_response(question) ==
    LET normalized == lower(strip(question)) IN
    IF normalized = <<>> THEN LocalReply("Necesito una pregunta para ayudarte.")
    ELSE IF normalized \in greetings
    THEN LocalReply("¡Hola! ¿En qué puedo ayudarte con las facturas?")
    ELSE IF normalized \in thanks
    THEN LocalReply("¡De nada! Si necesitas algo más, aquí estoy.")
    ELSE NoReply

\* a plan: needs_data, the tools of its steps in order, its notes
NoNotes == "None"
InitialPlan == [needs_data |-> FALSE, steps |-> <<>>, notes |-> NoNotes]
\* a degraded plan that still asks for data
DegradedPlan_needs_data == [needs_data |-> TRUE, steps |-> <<>>,
                            notes |-> "Unable to interpret the plan produced by the model."]
DegradedPlan == [needs_data |-> FALSE, steps |-> <<>>,
                 notes |-> "Unable to interpret the plan produced by the model."]
NoPlan == [needs_data |-> FALSE, steps |-> <<>>, notes |-> "no fallback plan"]

\* _build_fallback_plan, its first two rules: a count of the invoices by
\* SQL, the recent invoices by their tool
recent_invoices == <<"r", "e", "c", "e", "n", "t", " ", "i", "n", "v", "o", "i", "c", "e", "s">>
_build_fallback_plan(question) ==
    LET normalized == lower(question)
        count_steps == IF \E phrase \in
                              { <<"c", "u", "a", "n", "t", "a", "s", " ", "f", "a", "c", "t", "u", "r", "a", "s">>,
                                <<"h", "o", "w", " ", "m", "a", "n", "y", " ", "i", "n", "v", "o", "i", "c", "e", "s">> } :
                              contains(normalized, phrase)
                       THEN <<"execute_sql_query">> ELSE <<>>
        recent_steps == IF contains(normalized, recent_invoices)
                        THEN <<"get_recent_invoices">> ELSE <<>>
        plan_steps == count_steps \o recent_steps
    IN  IF plan_steps = <<>> THEN NoPlan
        ELSE [needs_data |-> TRUE, steps |-> <<"get_database_schema">> \o plan_steps,
              notes |-> "Plan produced by heuristic fallback."]

\* self.tool_lookup: the tools the server describes
tool_lookup == {"get_database_schema", "execute_sql_query", "get_recent_invoices"}

\* what the planner model wrote: whether json.loads accepts it and what it
\* yields; for an object its needs_data, its steps and the notes
\* a raw step: a tool of the server, "execute_sql_query_without_sql" (its sql
\* is no string), "unknown_tool", "not_a_dict", "unhashable_tool" (its tool
\* is a list)
Content(json, needs_data, steps_is_list, steps, fenced) ==
    [json |-> json, needs_data |-> needs_data, steps_is_list |-> steps_is_list,
     steps |-> steps, fenced |-> fenced]
PlanContents ==
    { Content("invalid", "None", FALSE, <<>>, FALSE),
      Content("array", "None", FALSE, <<>>, FALSE),
      Content("null", "None", FALSE, <<>>, FALSE),
      Content("object", "True", FALSE, <<>>, FALSE),
      Content("object", "False", TRUE, <<>>, FALSE),
      Content("object", "None", TRUE, <<>>, TRUE),
      Content("object", "True", TRUE, <<"unknown_tool", "not_a_dict">>, FALSE),
      Content("object", "True", TRUE, <<"execute_sql_query_without_sql">>, FALSE),
      Content("object", "True", TRUE, <<"get_database_schema">>, FALSE),
      Content("object", "False", TRUE, <<"get_database_schema", "execute_sql_query">>, TRUE),
      Content("object", "True", TRUE, <<"execute_sql_query">>, FALSE),
      Content("object", "True", TRUE, <<"unhashable_tool">>, FALSE) }
NoContent == Content("invalid", "None", FALSE, <<>>, FALSE)

\* _strip_markdown_block: the ``` fence and the word json go
_strip_markdown_block(content) == [content EXCEPT !.fenced = FALSE]

\* the `for idx, step in enumerate(steps_raw)` loop of _parse_plan
RECURSIVE ParseSteps(_)
ParseSteps(steps_raw) ==
    IF steps_raw = <<>> THEN <<>>
    ELSE IF Head(steps_raw) \in tool_lookup
    THEN <<Head(steps_raw)>> \o ParseSteps(Tail(steps_raw))
    ELSE ParseSteps(Tail(steps_raw))

\* _parse_plan: the plan it returns or the exception it raises
_parse_plan(content) ==
    LET cleaned == _strip_markdown_block(content)
        steps == ParseSteps(cleaned.steps)
    IN  IF cleaned.json = "invalid"
        THEN [raised |-> "PlanParseError", plan |-> InitialPlan]
        ELSE IF cleaned.json # "object"
        THEN [raised |-> "AttributeError", plan |-> InitialPlan]
        ELSE IF ~cleaned.steps_is_list
        THEN [raised |-> "PlanParseError", plan |-> InitialPlan]
        ELSE IF \E i \in DOMAIN cleaned.steps : cleaned.steps[i] = "unhashable_tool"
        THEN [raised |-> "TypeError", plan |-> InitialPlan]
        ELSE [raised |-> "",
              plan |-> [needs_data |-> IF cleaned.needs_data = "None" THEN steps # <<>>
                                       ELSE cleaned.needs_data = "True" \/ steps # <<>>,
                        steps |-> steps,
                        notes |-> NoNotes]]
\* _analyze_tool_runs: the issue, or none
zero_rows_never(run) == FALSE
\* `row_count == 0`
zero_rows(run) == run.row_count = 0
NoIssue == [error |-> "", zero_rows |-> FALSE]
RECURSIVE AnalyzeRuns(_, _)
AnalyzeRuns(tool_runs, has_sql) ==
    IF tool_runs = <<>>
    THEN IF ~has_sql
         THEN [error |-> "The plan did not execute any SQL query.", zero_rows |-> FALSE]
         ELSE NoIssue
    ELSE LET run == Head(tool_runs) IN
         IF run.tool # "execute_sql_query" THEN AnalyzeRuns(Tail(tool_runs), has_sql)
         ELSE IF ~run.success \/ run.error
         THEN [error |-> "MCP error", zero_rows |-> FALSE]
         ELSE IF zero_rows(run)
         THEN [error |-> "The query returned zero rows.", zero_rows |-> TRUE]
         ELSE AnalyzeRuns(Tail(tool_runs), TRUE)
\* diagnostics that also look at a plan that needs no data
_analyze_tool_runs_always(plan, tool_runs) == AnalyzeRuns(tool_runs, FALSE)
_analyze_tool_runs(plan, tool_runs) ==
    IF ~plan.needs_data THEN NoIssue ELSE AnalyzeRuns(tool_runs, FALSE)

\* _build_retry_feedback: the parts it joins
zero_rows_hint(issue) ==
    IF issue.zero_rows
    THEN <<"The query returned zero rows. Double-check table names, joins, and filters before proposing the next SQL statement.">>
    ELSE <<>>
_build_retry_feedback(issue) ==
    <<"The previous attempt failed while executing the proposed SQL query.",
      IF issue.error # "" THEN issue.error ELSE "An unknown error occurred.">>
    \o zero_rows_hint(issue)
    \o <<"Produce a new plan that uses the required tools (including get_database_schema when unsure) and a valid SQL query that follows all rules.">>

\* _fingerprint: the steps and, per run, its tool and row_count
_fingerprint(plan, tool_runs) ==
    <<plan.steps, [i \in DOMAIN tool_runs |-> <<tool_runs[i].tool, tool_runs[i].row_count>>]>>

\* the f-string of the planner's tag, and the summarizer's tag
plan_tag_first(attempt) == <<"assistant_plan_attempt", 1>>
plan_tag(attempt) == <<"assistant_plan_attempt", attempt>>
summary_tag == <<"assistant_summary", 0>>

OrchQuestions ==
    { <<>>, <<" ", "H", "o", "l", "a", "\n">>, gracias, <<"q">>,
      <<"H", "o", "w", " ", "m", "a", "n", "y", " ", "i", "n", "v", "o", "i", "c", "e", "s", "?">>,
      recent_invoices }

IdleOrch ==
    [pc |-> "idle", question |-> <<>>, attempt |-> 0, plan |-> InitialPlan,
     fallback_plan |-> NoPlan, used_fallback |-> FALSE, tool_runs |-> <<>>,
     last_issue |-> NoIssue, feedback |-> <<>>, feedback_history |-> 0,
     plan_content |-> NoContent, result |-> NoReply, raised |-> ""]
\* what one process_question call has done so far
NoTrace ==
    [lookups |-> 0, admissions |-> <<>>, executions |-> <<>>, applied |-> 0, stores |-> 0]

SandboxInit ==
    /\ query_cache = [k \in {} |-> [age |-> 0, payload |-> NoPayload]]
    /\ store = [k \in Keys |-> 0]
    /\ sb = [t \in Threads |-> IdleQuery]
    /\ queries = 0

NoQuery ==
    /\ submitted = <<>>
    /\ verdict = NoVerdict

\* ResponseCache.__init__
ResponseCacheInit ==
    /\ cache = [k \in {} |-> NoCached]
    /\ gets = <<>>

OrchestratorInit ==
    /\ orch = IdleOrch
    /\ trace = NoTrace
    /\ asked = 0

\* no _execute_plan and no call_tool has run
IdleExec == [pc |-> "idle", plan |-> InitialPlan, runs |-> <<>>, called |-> <<>>,
             content |-> <<>>, tool_runs |-> <<>>]
ExecutionInit == exec = IdleExec
\* `_rate_limiter: Optional[LLMRateLimiter] = None`, and no caller yet
IdleGetter == [pc |-> "idle", since |-> 0]
SingletonInit ==
    /\ _rate_limiter = 0
    /\ instances = 0
    /\ getter = [t \in Threads |-> IdleGetter]
    /\ obtained = {}
    /\ resets = 0
AssistantInit == ResponseCacheInit /\ OrchestratorInit /\ ExecutionInit /\ SingletonInit

Init == QuotaInit /\ SandboxInit /\ NoQuery /\ AssistantInit

\* ------------------------------------------------------------------- time
\* The clock schedule: while an entry is inside the minute window the clock
\* moves by half a minute, or less when an entry leaves the minute window
\* before that; otherwise it moves to the moment the next entry leaves the
\* day window; it can always jump past a whole day.  A sleeper wakes at the first
\* of these moments that is not before its wake-up time (time.sleep sleeps at
\* least the time asked).  Ages stop at DAY + 1: the code compares them with
\* MINUTE and DAY only.
Fresh == {i \in Range(minute_requests) : entry[i].age <= MINUTE}
MinuteDeadlines == {(MINUTE + 1) - entry[i].age : i \in Fresh}
DayDeadlines == {(DAY + 1) - entry[i].age : i \in {x \in DOMAIN entry : entry[x].age <= DAY}}

TickChoices ==
    (IF Fresh # {} THEN {Min({HALF_MINUTE} \cup MinuteDeadlines)}
     ELSE IF DayDeadlines # {} THEN {Min(DayDeadlines)} ELSE {})
    \cup {DAY + 1}

Clock ==
    \E d \in TickChoices :
        /\ entry' = [i \in DOMAIN entry |-> [entry[i] EXCEPT !.age = Min({@ + d, DAY + 1})]]
        /\ call' = [t \in Threads |-> [call[t] EXCEPT !.sleep_left = Max({0, @ - d})]]
        /\ (entry' # entry \/ call' # call)
        /\ UNCHANGED <<minute_requests, day_requests, entries, next_id,
                       usage_breakdown, lock, pc, calls, records>>

Tick == Clock /\ UNCHANGED non_limiter_vars

\* ------------------------------------------------------------ check_and_wait
\* a caller enters check_and_wait(estimated_tokens, tag)
Enter(t, est, tag) ==
    /\ pc[t] = "idle"
    /\ pc' = [pc EXCEPT ![t] = "lock_wait"]
    /\ call' = [call EXCEPT ![t] = [IdleCall EXCEPT !.est = est, !.tag = tag]]

Call(t, est, tag) ==
    /\ calls < MaxCalls
    /\ calls' = calls + 1
    /\ Enter(t, est, tag)
    /\ UNCHANGED <<limiter_vars, records, non_limiter_vars>>

\* `with self.lock:` (line 94)
AcquireLock(t) ==
    /\ pc[t] = "lock_wait"
    /\ lock = NoThread
    /\ lock' = t
    /\ pc' = [pc EXCEPT ![t] = "check"]
    /\ UNCHANGED <<minute_requests, day_requests, entries, entry, next_id,
                   usage_breakdown, call, calls, records>>

Acquire(t) == AcquireLock(t) /\ UNCHANGED non_limiter_vars

\* who holds the lock during time.sleep(wait_time) (line 183 is inside the
\* `with self.lock:` block of line 94)
LockWhileSleeping(t) == t

\* one pass of the `while True:` loop (lines 95-183)
Pass(t) ==
    /\ pc[t] = "check"
    /\ lock = t
    /\ LET mr == CleanMinute(entry, minute_requests)
           dr == CleanDay(entry, day_requests)
           es == CleanEntries(entry, day_requests, entries)
           u == CurrentUsage(entry, mr, dr)
           est == call[t].est
           tag == call[t].tag
           id == next_id
       IN  IF Admissible(u, est)
           THEN /\ minute_requests' = Append(mr, id)
                /\ day_requests' = Append(dr, id)
                /\ entries' = es \cup {id}
                /\ entry' = Collect([i \in DOMAIN entry \cup {id} |->
                                        IF i = id THEN [NoEntry EXCEPT !.tokens = est, !.tag = tag]
                                        ELSE entry[i]],
                                    Append(mr, id), Append(dr, id), es \cup {id})
                /\ next_id' = next_id + 1
                /\ usage_breakdown' = [SetDefault(usage_breakdown, tag)
                                          EXCEPT ![tag].requests = @ + 1]
                /\ lock' = NoThread
                /\ pc' = [pc EXCEPT ![t] = "idle"]
                /\ call' = [call EXCEPT ![t] = IdleCall]
           ELSE /\ minute_requests' = mr
                /\ day_requests' = dr
                /\ entries' = es
                /\ entry' = Collect(entry, mr, dr, es)
                /\ lock' = LockWhileSleeping(t)
                /\ pc' = [pc EXCEPT ![t] = "sleep"]
                /\ call' = [call EXCEPT ![t].waited = TRUE,
                                        ![t].sleep_left = WaitTime(entry, mr, u, est)]
                /\ UNCHANGED <<next_id, usage_breakdown>>
    /\ UNCHANGED <<calls, records>>

Check(t) == Pass(t) /\ UNCHANGED non_limiter_vars

\* time.sleep(wait_time) returns, the loop goes round
Resume(t) ==
    /\ pc[t] = "sleep"
    /\ call[t].sleep_left = 0
    /\ lock \in {NoThread, t}
    /\ lock' = t
    /\ pc' = [pc EXCEPT ![t] = "check"]
    /\ UNCHANGED <<minute_requests, day_requests, entries, entry, next_id,
                   usage_breakdown, call, calls, records>>

Wake(t) == Resume(t) /\ UNCHANGED non_limiter_vars

\* ------------------------------------------------------ record_actual_tokens
record_actual_tokens(entry_id, prompt_tokens, completion_tokens) ==
    LET total == Max({0, prompt_tokens + completion_tokens})
    IN  /\ lock = NoThread
        /\ IF entry_id \notin entries
           THEN UNCHANGED <<entry, usage_breakdown>>
           ELSE LET tag == entry[entry_id].tag
                IN  /\ entry' = [entry EXCEPT ![entry_id].tokens = total,
                                              ![entry_id].finalized = TRUE]
                    /\ usage_breakdown' =
                           [SetDefault(usage_breakdown, tag) EXCEPT
                               ![tag].prompt_tokens = @ + prompt_tokens,
                               ![tag].completion_tokens = @ + completion_tokens]
        /\ UNCHANGED <<minute_requests, day_requests, entries, next_id, lock>>

\* deque(item for item in deque if item["id"] != entry_id)
Without(s, entry_id) == SelectSeq(s, LAMBDA i : i # entry_id)

\* a cancellation that keeps the entry and corrects it to zero tokens
cancel_request_zeroes(entry_id) ==
    /\ lock = NoThread
    /\ IF entry_id \notin entries
       THEN UNCHANGED <<entry, usage_breakdown>>
       ELSE /\ entry' = [entry EXCEPT ![entry_id].tokens = 0]
            /\ UNCHANGED usage_breakdown
    /\ UNCHANGED <<minute_requests, day_requests, entries, next_id, lock>>

\* ------------------------------------------------------------ cancel_request
cancel_request(entry_id) ==
    /\ lock = NoThread
    /\ IF entry_id \notin entries
       THEN UNCHANGED <<minute_requests, day_requests, entries, entry, usage_breakdown>>
       ELSE LET tag == entry[entry_id].tag
                mr == Without(minute_requests, entry_id)
                dr == Without(day_requests, entry_id)
            IN  /\ entries' = entries \ {entry_id}
                /\ usage_breakdown' =
                       IF tag \in DOMAIN usage_breakdown
                       THEN [usage_breakdown EXCEPT ![tag].requests = Max({0, @ - 1})]
                       ELSE usage_breakdown
                /\ minute_requests' = mr
                /\ day_requests' = dr
                /\ entry' = Collect(entry, mr, dr, entries \ {entry_id})
    /\ UNCHANGED <<next_id, lock>>

\* a retagging that counts the new tag and leaves the old tag's counter alone
retag_entry_adds(entry_id, new_tag) ==
    /\ lock = NoThread
    /\ IF entry_id \notin entries \/ entry[entry_id].tag = new_tag
       THEN UNCHANGED <<entry, usage_breakdown>>
       ELSE /\ entry' = [entry EXCEPT ![entry_id].tag = new_tag]
            /\ usage_breakdown' =
                   [SetDefault(usage_breakdown, new_tag) EXCEPT ![new_tag].requests = @ + 1]
    /\ UNCHANGED <<minute_requests, day_requests, entries, next_id, lock>>

\* --------------------------------------------------------------- retag_entry
retag_entry(entry_id, new_tag) ==
    /\ lock = NoThread
    /\ IF entry_id \notin entries \/ entry[entry_id].tag = new_tag
       THEN UNCHANGED <<entry, usage_breakdown>>
       ELSE LET old_tag == entry[entry_id].tag
                dropped == IF old_tag \in DOMAIN usage_breakdown
                           THEN [usage_breakdown EXCEPT ![old_tag].requests = Max({0, @ - 1})]
                           ELSE usage_breakdown
            IN  /\ entry' = [entry EXCEPT ![entry_id].tag = new_tag]
                /\ usage_breakdown' =
                       [SetDefault(dropped, new_tag) EXCEPT ![new_tag].requests = @ + 1]
    /\ UNCHANGED <<minute_requests, day_requests, entries, next_id, lock>>

\* ----------------------------------------------------------------- get_stats
get_stats ==
    /\ lock = NoThread
    /\ LET mr == CleanMinute(entry, minute_requests)
           dr == CleanDay(entry, day_requests)
           es == CleanEntries(entry, day_requests, entries)
       IN  /\ minute_requests' = mr
           /\ day_requests' = dr
           /\ entries' = es
           /\ entry' = Collect(entry, mr, dr, es)
    /\ UNCHANGED <<next_id, usage_breakdown, lock>>

\* --------------------------------------------- callers of the limiter's API
RecordActualTokens ==
    \E id \in EntryIds, p \in PromptTokens, c \in CompletionTokens :
        /\ records < MaxRecords
        /\ records' = records + 1
        /\ record_actual_tokens(id, p, c)
        /\ UNCHANGED <<pc, call, calls, non_limiter_vars>>

CancelRequest ==
    \E id \in EntryIds :
        /\ cancel_request(id)
        /\ UNCHANGED <<thread_vars, non_limiter_vars>>

RetagEntry ==
    \E id \in EntryIds, tag \in Tags :
        /\ retag_entry(id, tag)
        /\ UNCHANGED <<thread_vars, non_limiter_vars>>

GetStats ==
    /\ get_stats
    /\ UNCHANGED <<thread_vars, non_limiter_vars>>

CheckAndWait ==
    \E t \in Threads :
        \/ \E est \in EstTokens, tag \in Tags : Call(t, est, tag)
        \/ Acquire(t)
        \/ Check(t)
        \/ Wake(t)

Next ==
    \/ Tick
    \/ CheckAndWait
    \/ RecordActualTokens
    \/ CancelRequest
    \/ RetagEntry
    \/ GetStats

Spec == Init /\ [][Next]_vars

\* -------------------------------------------- callers under a fair scheduler
\* check_and_wait callers only, the clock advancing, every thread that can
\* take a step eventually taking it and a thread that can take the lock
\* again and again eventually getting it.
OversizeCall ==
    \E t \in Threads, est \in OversizeTokens, tag \in Tags : Call(t, est, tag)

NextCalls ==
    \/ Tick
    \/ CheckAndWait
    \/ OversizeCall

Fairness ==
    /\ WF_vars(Tick)
    /\ \A t \in Threads :
          SF_vars(Acquire(t)) /\ WF_vars(Check(t)) /\ WF_vars(Wake(t))

FairSpec == Init /\ [][NextCalls]_vars /\ Fairness

\* two callers enter check_and_wait together with estimates that each fit
\* under tpm_limit alone and do not fit together; nobody else calls
ScenarioInit ==
    /\ minute_requests = <<>>
    /\ day_requests = <<>>
    /\ entries = {}
    /\ entry = [i \in {} |-> NoEntry]
    /\ next_id = 0
    /\ usage_breakdown = [t \in {} |-> NewStats]
    /\ lock = NoThread
    /\ \E e1, e2 \in 1..tpm_limit, g1, g2 \in Tags :
          /\ e1 + e2 > tpm_limit
          /\ pc = [t \in Threads |-> IF t <= 2 THEN "lock_wait" ELSE "idle"]
          /\ call = [t \in Threads |->
                       IF t = 1 THEN [IdleCall EXCEPT !.est = e1, !.tag = g1]
                       ELSE IF t = 2 THEN [IdleCall EXCEPT !.est = e2, !.tag = g2]
                       ELSE IdleCall]
    /\ calls = MaxCalls
    /\ records = 0
    /\ client = [t \in Threads |-> IdleClient]
    /\ invocations = 0
    /\ SandboxInit
    /\ NoQuery
    /\ AssistantInit

NextScenario ==
    \/ Tick
    \/ \E t \in Threads : Acquire(t) \/ Check(t) \/ Wake(t)

ScenarioSpec == ScenarioInit /\ [][NextScenario]_vars /\ Fairness

\* ------------------------------------------- model calls that reserve quota
\* LLMOrchestrator._call_groq, chat_completion and the pipeline's call_llm:
\* check_and_wait, one HTTP POST, then the bookkeeping of the reserved entry.
\* The pauses between the attempts of chat_completion and call_llm
\* (time.sleep outside any lock) are the clock advancing between two steps.
MAX_ATTEMPTS == 4
Functions == {"_call_groq", "chat_completion", "call_llm"}
\* what requests.post can do: a status code, a 2xx whose body is not a JSON
\* object with numeric usage fields, or an exception
Outcomes == {"200", "200_bad_body", "201", "429", "500", "400",
             "Timeout", "ConnectionError"}
ClientEst == {2}
ClientTags == {"assistant_summary"}
\* usage.prompt_tokens and usage.completion_tokens of a well-formed answer
ClientUsage == {<<1, 2>>}

StartCall(t, fn, est, tag) ==
    /\ invocations < MaxInvocations
    /\ client[t].pc = "idle"
    /\ invocations' = invocations + 1
    /\ client' = [client EXCEPT ![t] =
                     [IdleClient EXCEPT !.pc = "check_and_wait", !.fn = fn,
                                        !.est = est, !.tag = tag,
                                        !.attempts = IF fn = "_call_groq" THEN 0 ELSE 1]]
    /\ Enter(t, est, tag)
    /\ UNCHANGED <<limiter_vars, calls, records, other_vars>>

\* rate_info = rate_limiter.check_and_wait(...); entry_id = rate_info.get("entry_id")
ClientCheck(t) ==
    /\ client[t].pc = "check_and_wait"
    /\ Pass(t)
    /\ client' = IF next_id' # next_id
                 THEN [client EXCEPT ![t].pc = "post",
                                     ![t].entry_id = next_id,
                                     ![t].owned = @ \cup {next_id}]
                 ELSE client
    /\ UNCHANGED <<invocations, other_vars>>

\* requests.post(...) answers or raises
Post(t, outcome) ==
    /\ client[t].pc = "post"
    /\ client' = [client EXCEPT ![t].pc = "handle", ![t].outcome = outcome]
    /\ UNCHANGED <<limiter_vars, thread_vars, invocations, other_vars>>

Exit(t, how) ==
    /\ client' = [client EXCEPT ![t].pc = how]
    /\ UNCHANGED <<pc, call>>

\* `continue`, or falling off the end of the try: back to `while attempts < 4`
NextAttempt(t) ==
    IF client[t].attempts < MAX_ATTEMPTS
    THEN /\ client' = [client EXCEPT ![t].pc = "check_and_wait",
                                      ![t].attempts = @ + 1,
                                      ![t].entry_id = -1]
         /\ Enter(t, client[t].est, client[t].tag)
    ELSE Exit(t, "raised")

\* orchestrator.py lines 641-658
HandleCallGroq(t) ==
    LET c == client[t]
    IN  /\ c.fn = "_call_groq"
        /\ IF c.outcome \in {"200", "201"}
           THEN /\ \E u \in ClientUsage :
                      record_actual_tokens(c.entry_id, u[1], u[2])
                /\ Exit(t, "returned")
           ELSE IF c.outcome = "200_bad_body"
           THEN /\ UNCHANGED limiter_vars
                /\ Exit(t, "raised")
           ELSE /\ cancel_request(c.entry_id)
                /\ Exit(t, "raised")

\* groq_client.py lines 69-130
HandleChatCompletion(t) ==
    LET c == client[t]
    IN  /\ c.fn = "chat_completion"
        /\ IF c.outcome = "200"
           THEN /\ \E u \in ClientUsage :
                      record_actual_tokens(c.entry_id, u[1], u[2])
                /\ Exit(t, "returned")
           ELSE IF c.outcome \in {"429", "500", "Timeout"}
           THEN /\ cancel_request(c.entry_id)
                /\ NextAttempt(t)
           ELSE IF c.outcome = "201"
           THEN /\ UNCHANGED limiter_vars
                /\ NextAttempt(t)
           ELSE /\ cancel_request(c.entry_id)
                /\ Exit(t, "raised")

\* an except clause that cancels on the last attempt as well
CancelsOnError_always(attempts) == TRUE
\* `if attempt < 3` of the two except clauses of call_llm
CancelsOnError(attempts) == attempts < MAX_ATTEMPTS
\* pipeline/llm/groq_client.py lines 80-171: the entry of an attempt is
\* cancelled on every path that goes on to another attempt
HandleCallLlm(t) ==
    LET c == client[t]
    IN  /\ c.fn = "call_llm"
        /\ IF c.outcome = "200"
           THEN /\ \E u \in ClientUsage :
                      record_actual_tokens(c.entry_id, u[1], u[2])
                /\ Exit(t, "returned")
           ELSE IF c.outcome \in {"429", "500", "201"}
           THEN /\ cancel_request(c.entry_id)
                /\ NextAttempt(t)
           ELSE IF CancelsOnError(c.attempts)
           THEN /\ cancel_request(c.entry_id)
                /\ NextAttempt(t)
           ELSE /\ UNCHANGED limiter_vars
                /\ Exit(t, "raised")

Handle(t) ==
    /\ client[t].pc = "handle"
    /\ HandleCallGroq(t) \/ HandleChatCompletion(t) \/ HandleCallLlm(t)
    /\ UNCHANGED <<calls, records, invocations, other_vars>>

\* the caller goes on after the return or the exception
FinishCall(t) ==
    /\ client[t].pc \in {"returned", "raised"}
    /\ client' = [client EXCEPT ![t] = IdleClient]
    /\ UNCHANGED <<limiter_vars, thread_vars, invocations, other_vars>>

ModelCall(t) ==
    \/ \E fn \in Functions, est \in ClientEst, tag \in ClientTags : StartCall(t, fn, est, tag)
    \/ Acquire(t)
    \/ ClientCheck(t)
    \/ Wake(t)
    \/ \E outcome \in Outcomes : Post(t, outcome)
    \/ Handle(t)
    \/ FinishCall(t)

NextClient ==
    \/ Tick
    \/ \E t \in Threads : ModelCall(t)

ClientSpec == Init /\ [][NextClient]_vars

\* ------------------------------------------------------------ execute_query
\* A list of rows is kept as the number of rows it holds: the rows of a
\* result are the first `rows` rows the statement fetched.

\* a rejection that says nothing about its reason
RejectionPayload_no_error(sql_text, error_msg) ==
    [success |-> FALSE, error |-> "", query |-> sql_text, rows |-> 0, row_count |-> 0]
\* lines 640-647
RejectionPayload(sql_text, error_msg) ==
    [success |-> FALSE, error |-> error_msg, query |-> sql_text, rows |-> 0, row_count |-> 0]
\* lines 700-707
ErrorPayload(sql_text, e) ==
    [success |-> FALSE, error |-> e, query |-> sql_text, rows |-> 0, row_count |-> 0]

\* a cap that already cuts a result of exactly MAX_RESULT_ROWS rows
Truncates_at_cap(total_rows) == total_rows >= MAX_RESULT_ROWS
Truncates(total_rows) == total_rows > MAX_RESULT_ROWS
\* len(rows[:stop]) for a list of n rows
Slice(n, stop) == IF n < stop THEN n ELSE stop

\* lines 666-690; error None is the empty text
SuccessPayload(sql_text, total_rows) ==
    LET truncated == Truncates(total_rows)
        rows == IF truncated THEN Slice(total_rows, MAX_RESULT_ROWS) ELSE total_rows
    IN  [success |-> TRUE, rows |-> rows, row_count |-> total_rows,
         returned_rows |-> rows, error |-> "", query |-> sql_text,
         truncated |-> truncated]

\* a cache that takes truncated results as well
Cacheable_always(payload) == TRUE
\* `if not truncated:` (line 693)
Cacheable(payload) == ~payload.truncated

\* ------------------------------------------------- the tools and their digests
MAX_TOOL_ROWS == 50
AGGREGATION_THRESHOLD == 20
\* the columns of a statement's result: how many, whether a name holds an
\* aggregation keyword, and how many values of the first row are numbers
Columns(n, has_agg_col, numeric) ==
    [n |-> n, has_agg_col |-> has_agg_col, numeric |-> numeric]
NoColumns == Columns(0, FALSE, 0)
\* what the backing store does for one call of a tool: it fails, or the
\* statement matches total_rows rows
StoreOutcome(fails, total_rows, columns) ==
    [fails |-> fails, total_rows |-> total_rows, columns |-> columns]
\* get_schema: the schema, or the empty schema with the error text
get_schema(outcome) == [tables |-> ~outcome.fails, error |-> outcome.fails]
\* a tool's result: success, whether there is an error text, row_count
\* (-1: the key is absent), the length of rows, truncated (absent is
\* FALSE), and whether a failed load hides in its schema
Result(success, error, row_count, rows, truncated, columns, schema_error) ==
    [success |-> success, error |-> error, row_count |-> row_count, rows |-> rows,
     truncated |-> truncated, columns |-> columns, schema_error |-> schema_error]
\* execute_query as the query tools call it
execute_query(outcome) ==
    IF outcome.fails
    THEN LET payload == ErrorPayload(<<>>, "database error")
         IN  Result(payload.success, payload.error # "", payload.row_count,
                    payload.rows, FALSE, NoColumns, FALSE)
    ELSE LET payload == SuccessPayload(<<>>, outcome.total_rows)
         IN  Result(payload.success, payload.error # "", payload.row_count,
                    payload.rows, payload.truncated, outcome.columns, FALSE)
\* {"success": False, "error": ...} of call_tool
ToolError == Result(FALSE, TRUE, -1, 0, FALSE, NoColumns, FALSE)
\* get_vendor_invoices: its own statement with `LIMIT ?`, all rows fetched
get_vendor_invoices(limit, outcome) ==
    IF outcome.fails THEN ToolError
    ELSE LET rows == Slice(outcome.total_rows, limit)
         IN  Result(TRUE, FALSE, rows, rows, FALSE,
                    IF rows > 0 THEN outcome.columns ELSE NoColumns, FALSE)
\* a limit that a caller of get_vendor_invoices passes
CallerLimit == MAX_RESULT_ROWS + 500
\* call_tool; arguments is "sql" (a dict with that key), "empty" (a dict
\* without it), "None" (no dict), "vendor_name" (a dict with that key) or
\* "vendor_name_limit" (with a limit of CallerLimit as well), and what a
\* tool raises is caught
call_tool(tool_name, arguments, outcome) ==
    IF tool_name = "get_vendor_invoices"
    THEN IF arguments = "vendor_name" THEN get_vendor_invoices(20, outcome)
         ELSE IF arguments = "vendor_name_limit"
         THEN get_vendor_invoices(CallerLimit, outcome)
         ELSE ToolError
    ELSE
    IF tool_name = "execute_sql_query"
    THEN IF arguments = "sql" THEN execute_query(outcome) ELSE ToolError
    ELSE IF tool_name = "get_database_schema"
    THEN Result(TRUE, FALSE, -1, 0, FALSE, NoColumns, get_schema(outcome).error)
    ELSE IF tool_name = "get_recent_invoices"
    THEN IF arguments = "None" THEN ToolError ELSE execute_query(outcome)
    ELSE ToolError

\* _is_aggregation_result
_is_aggregation_result(columns, rows) ==
    IF columns.n = 0 \/ rows = 0 THEN FALSE
    ELSE IF columns.n <= 5
    THEN columns.has_agg_col \/ 2 * columns.numeric >= columns.n
    ELSE columns.has_agg_col
\* a digest that takes every result as small enough
FitsDigest_always(row_count, max_rows) == TRUE
\* `if row_count <= max_rows`
FitsDigest(row_count, max_rows) == row_count <= max_rows
\* _summarize_tool_result: the keys it copies, the number of sample_rows,
\* complete_result ("absent" when the key is not set) and omitted_rows
_summarize_tool_result(tool_name, result) ==
    LET row_count == result.rows
        max_rows == IF _is_aggregation_result(result.columns, result.rows)
                    THEN AGGREGATION_THRESHOLD ELSE MAX_TOOL_ROWS
        preview == IF FitsDigest(row_count, max_rows) THEN row_count
                   ELSE Slice(row_count, max_rows)
    IN  [tool |-> tool_name, success |-> result.success, error |-> result.error,
         row_count |-> result.row_count,
         sample_rows |-> IF result.rows > 0 THEN preview ELSE 0,
         complete_result |-> IF result.rows = 0 THEN "absent"
                             ELSE IF FitsDigest(row_count, max_rows) THEN "True"
                             ELSE "False",
         omitted_rows |-> IF result.rows > 0 /\ ~FitsDigest(row_count, max_rows)
                          THEN row_count - preview ELSE 0,
         truncated |-> result.truncated]
\* an except clause that records the step as a success
RaisedSummary_success(tool) ==
    [tool |-> tool, success |-> TRUE, error |-> FALSE, row_count |-> -1,
     sample_rows |-> 0, complete_result |-> "absent", omitted_rows |-> 0,
     truncated |-> FALSE]
\* the summary of the `except Exception` clause of _execute_plan
RaisedSummary(tool) ==
    [tool |-> tool, success |-> FALSE, error |-> TRUE, row_count |-> -1,
     sample_rows |-> 0, complete_result |-> "absent", omitted_rows |-> 0,
     truncated |-> FALSE]

\* a run of _execute_plan as diagnostics and _fingerprint read it
Run(tool, success, error, row_count) ==
    [tool |-> tool, success |-> success, error |-> error, row_count |-> row_count]
\* the results process_question can get: call_tool catches what its tools
\* raise and _summarize_tool_result accepts every result of call_tool
StoreOutcomes ==
    {StoreOutcome(TRUE, 0, NoColumns), StoreOutcome(FALSE, 0, NoColumns),
     StoreOutcome(FALSE, 3, Columns(1, TRUE, 1))}
ToolResults(tool) ==
    {LET summary == _summarize_tool_result(tool, call_tool(tool, "sql", outcome))
     IN  Run(tool, summary.success, summary.error, summary.row_count) :
        outcome \in StoreOutcomes}
\* the lists of runs _execute_plan can return for a plan
RECURSIVE RunsOf(_)
RunsOf(steps) ==
    IF steps = <<>> THEN {<<>>}
    ELSE {<<r>> \o rest : r \in ToolResults(Head(steps)), rest \in RunsOf(Tail(steps))}
_execute_plan(plan) == IF ~plan.needs_data THEN {<<>>} ELSE RunsOf(plan.steps)


\* validation, and the early return of a rejected query
ExecuteQuery(t, q) ==
    /\ queries < MaxQueries
    /\ sb[t].pc = "idle"
    /\ queries' = queries + 1
    /\ LET v == _validate_query(q)
       IN  sb' = [sb EXCEPT ![t] =
                    IF ~v.valid
                    THEN [IdleQuery EXCEPT !.pc = "done", !.sql = q,
                                           !.result = RejectionPayload(q, v.error)]
                    ELSE [IdleQuery EXCEPT !.pc = "lookup", !.sql = q]]
    /\ UNCHANGED <<query_cache, store, non_sandbox_vars>>

\* _get_cached_query up to its `del`: self._query_cache.get(key) and the TTL test
CacheGet(t) ==
    /\ sb[t].pc = "lookup"
    /\ LET key == _cache_key(sb[t].sql)
       IN  sb' = [sb EXCEPT ![t] =
                    IF key \notin DOMAIN query_cache
                    THEN [@ EXCEPT !.pc = "execute", !.cache_read = TRUE]
                    ELSE IF query_cache[key].age > CACHE_TTL
                    THEN [@ EXCEPT !.pc = "expire", !.cache_read = TRUE]
                    ELSE [@ EXCEPT !.pc = "done", !.cache_read = TRUE,
                                   !.result = query_cache[key].payload,
                                   !.matching = store[key]]]
    /\ UNCHANGED <<query_cache, store, queries, non_sandbox_vars>>

\* del self._query_cache[key]
CacheDelete(t) ==
    /\ sb[t].pc = "expire"
    /\ LET key == _cache_key(sb[t].sql)
       IN  IF key \in DOMAIN query_cache
           THEN /\ query_cache' = [k \in DOMAIN query_cache \ {key} |-> query_cache[k]]
                /\ sb' = [sb EXCEPT ![t].pc = "execute", ![t].cache_changed = TRUE]
           ELSE /\ UNCHANGED query_cache
                /\ sb' = [sb EXCEPT ![t].pc = "done", ![t].raised = "KeyError"]
    /\ UNCHANGED <<store, queries, non_sandbox_vars>>

\* the try block: connect, cursor.execute(sql), fetchall, build the payload
RunStatement(t) ==
    /\ sb[t].pc = "execute"
    /\ LET key == _cache_key(sb[t].sql)
           payload == SuccessPayload(sb[t].sql, store[key])
       IN  \E fails \in BOOLEAN :
              sb' = [sb EXCEPT ![t] =
                       IF fails
                       THEN [@ EXCEPT !.pc = "done", !.executed = TRUE,
                                      !.matching = store[key],
                                      !.result = ErrorPayload(sb[t].sql, "database error")]
                       ELSE [@ EXCEPT !.pc = IF Cacheable(payload) THEN "store" ELSE "done",
                                      !.executed = TRUE,
                                      !.matching = store[key],
                                      !.result = payload]]
    /\ UNCHANGED <<query_cache, store, queries, non_sandbox_vars>>

\* _set_cached_query, then `return payload`
CacheSet(t) ==
    /\ sb[t].pc = "store"
    /\ LET key == _cache_key(sb[t].sql)
       IN  query_cache' =
              [k \in DOMAIN query_cache \cup {key} |->
                  IF k = key THEN [age |-> 0, payload |-> sb[t].result]
                  ELSE query_cache[k]]
    /\ sb' = [sb EXCEPT ![t].pc = "done", ![t].cache_changed = TRUE]
    /\ UNCHANGED <<store, queries, non_sandbox_vars>>

\* the caller has the result (or the exception) and the thread is free again
ReturnResult(t) ==
    /\ sb[t].pc = "done"
    /\ sb' = [sb EXCEPT ![t] = IdleQuery]
    /\ UNCHANGED <<query_cache, store, queries, non_sandbox_vars>>

\* time.time() moves on: to the moment the youngest live cache entry is
\* exactly QUERY_CACHE_TTL_SECONDS old, or just past it
SandboxTick ==
    /\ LET fresh == {query_cache[k].age :
                       k \in {x \in DOMAIN query_cache : query_cache[x].age <= CACHE_TTL}}
           d == IF Min(fresh) < CACHE_TTL THEN CACHE_TTL - Min(fresh) ELSE 1
       IN  /\ fresh # {}
           /\ query_cache' =
                 [k \in DOMAIN query_cache |->
                     [query_cache[k] EXCEPT
                         !.age = IF @ + d > CACHE_TTL THEN CACHE_TTL + 1 ELSE @ + d]]
    /\ UNCHANGED <<store, sb, queries, non_sandbox_vars>>

\* the pipeline persists or removes invoices: a statement matches another
\* number of rows
StoreWrite ==
    /\ \E k \in Keys, n \in RowCounts :
          /\ n # store[k]
          /\ store' = [store EXCEPT ![k] = n]
    /\ UNCHANGED <<query_cache, sb, queries, non_sandbox_vars>>

Sandbox(t) ==
    \/ \E q \in Queries : ExecuteQuery(t, q)
    \/ CacheGet(t)
    \/ CacheDelete(t)
    \/ RunStatement(t)
    \/ CacheSet(t)
    \/ ReturnResult(t)

NextSandbox ==
    \/ SandboxTick
    \/ StoreWrite
    \/ \E t \in Threads : Sandbox(t)

SandboxSpec == Init /\ [][NextSandbox]_vars

\* ------------------------------------------------------- the answer cache
ResponseCacheGet ==
    /\ Len(gets) < MaxGets
    /\ \E question \in Questions, fingerprint \in Fingerprints :
          LET r == get(cache, question, fingerprint) IN
          /\ cache' = r.cache
          /\ gets' = Append(gets, [question |-> question, found |-> r.found,
                                   answer |-> r.entry.answer, age |-> r.entry.age])
    /\ UNCHANGED <<orchestrator_vars, non_assistant_vars>>

ResponseCacheSet ==
    /\ \E q \in Questions, a \in Answers, f \in Fingerprints :
          cache' = set(cache, q, a, f)
    /\ UNCHANGED <<gets, orchestrator_vars, non_assistant_vars>>

\* time passes; the clock is followed through the ages around the expiry:
\* just stored, a second old, a second before ttl, ttl or more
ResponseCacheClock ==
    /\ \E d \in {1, ttl_seconds - 2, ttl_seconds - 1} :
          LET aged == [k \in DOMAIN cache |->
                         [cache[k] EXCEPT !.age = Min({@ + d, ttl_seconds})]]
          IN  /\ \E k \in DOMAIN cache : cache[k].age < ttl_seconds
              /\ \A k \in DOMAIN cache : aged[k].age \in {0, 1, ttl_seconds - 1, ttl_seconds}
              /\ cache' = aged
    /\ UNCHANGED <<gets, non_assistant_vars>>
ResponseCacheTick == ResponseCacheClock /\ UNCHANGED orchestrator_vars

NextResponseCache ==
    \/ ResponseCacheGet
    \/ ResponseCacheSet
    \/ ResponseCacheTick

ResponseCacheSpec == Init /\ [][NextResponseCache]_vars

\* ------------------------------------------------------- process_question
\* the router calls process_question from its coroutine without awaiting
\* anything inside it: one call runs at a time
Ask ==
    /\ orch.pc = "idle"
    /\ asked < MaxQuestions
    /\ asked' = asked + 1
    /\ trace' = NoTrace
    /\ \E question \in OrchQuestions :
          LET short_reply == _try_local_response(question) IN
          orch' = IF short_reply # NoReply
                  THEN [IdleOrch EXCEPT !.pc = "done", !.question = question,
                                        !.result = short_reply]
                  ELSE [IdleOrch EXCEPT !.pc = "lookup", !.question = question]
    /\ UNCHANGED <<response_cache_vars, non_assistant_vars>>

\* cached = self.cache.get(question)
Lookup ==
    /\ orch.pc = "lookup"
    /\ LET r == get(cache, orch.question, NoFingerprint) IN
          /\ cache' = r.cache
          /\ orch' = IF r.found
                     THEN [orch EXCEPT !.pc = "done",
                                       !.result = [success |-> TRUE, answer |-> r.entry.answer,
                                                   cached |-> TRUE, local |-> FALSE]]
                     ELSE [orch EXCEPT !.pc = "plan", !.attempt = 1]
    /\ trace' = [trace EXCEPT !.lookups = @ + 1]
    /\ UNCHANGED <<gets, asked, non_assistant_vars>>

\* what the backend answers to one POST of _call_groq
Responses == {"200", "429", "500", "Timeout"}

\* the planner's _call_groq of an attempt and _extract_message_content; a
\* response other than 200 is raised out of process_question
PlannerCall ==
    /\ orch.pc = "plan"
    /\ trace' = [trace EXCEPT !.admissions = Append(@, plan_tag(orch.attempt))]
    /\ \E response \in Responses :
          IF response = "200"
          THEN \E content \in PlanContents :
                  orch' = [orch EXCEPT !.pc = "parse", !.plan_content = content]
          ELSE orch' = [orch EXCEPT !.pc = "done", !.raised = response]
    /\ UNCHANGED <<response_cache_vars, asked, non_assistant_vars>>

\* plan = self._parse_plan(plan_content), PlanParseError caught
ParsePlan ==
    /\ orch.pc = "parse"
    /\ LET r == _parse_plan(orch.plan_content) IN
          orch' = IF r.raised = "" THEN [orch EXCEPT !.pc = "choose", !.plan = r.plan]
                  ELSE IF r.raised = "PlanParseError"
                  THEN [orch EXCEPT !.pc = "choose", !.plan = DegradedPlan]
                  ELSE [orch EXCEPT !.pc = "done", !.raised = r.raised]
    /\ UNCHANGED <<trace, response_cache_vars, asked, non_assistant_vars>>

\* the fallback plan is built once and replaces a plan without steps or
\* without needs_data
ApplyFallback_never(o) == FALSE
ApplyFallback(o) ==
    (o.plan.steps = <<>> \/ ~o.plan.needs_data) /\ o.fallback_plan # NoPlan /\ ~DISABLE_FALLBACK
ChoosePlan ==
    /\ orch.pc = "choose"
    /\ LET built == IF orch.fallback_plan = NoPlan /\ ~DISABLE_FALLBACK
                    THEN [orch EXCEPT !.fallback_plan = _build_fallback_plan(orch.question)]
                    ELSE orch
       IN  IF ApplyFallback(built)
           THEN /\ orch' = [built EXCEPT !.pc = "execute", !.plan = built.fallback_plan,
                                         !.used_fallback = TRUE]
                /\ trace' = [trace EXCEPT !.applied = @ + 1]
           ELSE /\ orch' = [built EXCEPT !.pc = "execute"]
                /\ trace' = trace
    /\ UNCHANGED <<response_cache_vars, asked, non_assistant_vars>>

\* tool_runs = self._execute_plan(plan)
ExecutePlan ==
    /\ orch.pc = "execute"
    /\ \E runs \in _execute_plan(orch.plan) :
          orch' = [orch EXCEPT !.pc = "analyze", !.tool_runs = runs]
    /\ trace' = [trace EXCEPT !.executions = Append(@, orch.plan.notes)]
    /\ UNCHANGED <<response_cache_vars, asked, non_assistant_vars>>

\* last_issue = self._analyze_tool_runs(plan, tool_runs) and the rest of the
\* loop body: break, or the feedback for the next attempt
Breaks_without_issue(issue, used_fallback) == issue = NoIssue
\* the two `break` of the loop body
Breaks(issue, used_fallback) == issue = NoIssue \/ used_fallback
Analyze ==
    /\ orch.pc = "analyze"
    /\ LET issue == _analyze_tool_runs(orch.plan, orch.tool_runs) IN
          orch' = IF Breaks(issue, orch.used_fallback)
                  THEN [orch EXCEPT !.pc = "after_loop", !.last_issue = issue]
                  ELSE [orch EXCEPT !.pc = IF orch.attempt < MAX_PLAN_ATTEMPTS
                                           THEN "plan" ELSE "after_loop",
                                    !.attempt = IF orch.attempt < MAX_PLAN_ATTEMPTS
                                                THEN @ + 1 ELSE @,
                                    !.last_issue = issue,
                                    !.feedback = _build_retry_feedback(issue),
                                    !.feedback_history = @ + 1]
    /\ UNCHANGED <<trace, response_cache_vars, asked, non_assistant_vars>>

\* after the loop: the fallback plan runs when the attempts left an issue and
\* it was not used; then _plan_with_feedback returns
FallbackAfterLoop_again(o) ==
    o.last_issue # NoIssue /\ o.fallback_plan # NoPlan /\ ~DISABLE_FALLBACK
FallbackAfterLoop(o) ==
    o.last_issue # NoIssue /\ ~o.used_fallback /\ o.fallback_plan # NoPlan
    /\ ~DISABLE_FALLBACK
AfterLoop ==
    /\ orch.pc = "after_loop"
    /\ IF FallbackAfterLoop(orch)
       THEN /\ \E runs \in _execute_plan(orch.fallback_plan) :
                  orch' = [orch EXCEPT !.pc = "respond", !.plan = orch.fallback_plan,
                                       !.tool_runs = runs,
                                       !.last_issue = _analyze_tool_runs(orch.fallback_plan, runs),
                                       !.used_fallback = TRUE]
            /\ trace' = [trace EXCEPT !.applied = @ + 1,
                                      !.executions = Append(@, orch.fallback_plan.notes)]
       ELSE /\ orch' = [orch EXCEPT !.pc = "respond"]
            /\ trace' = trace
    /\ UNCHANGED <<response_cache_vars, asked, non_assistant_vars>>

\* a plan that needs no data and ran no tool is answered with its notes
AnswersWithoutData_never(o) == FALSE
\* `if not plan.get("needs_data") and not tool_runs`
AnswersWithoutData(o) == ~o.plan.needs_data /\ o.tool_runs = <<>>
Respond ==
    /\ orch.pc = "respond"
    /\ orch' = IF AnswersWithoutData(orch)
               THEN [orch EXCEPT !.pc = "done",
                                 !.result = [success |-> TRUE,
                                             answer |-> IF orch.plan.notes # NoNotes
                                                        THEN orch.plan.notes
                                                        ELSE "Lo siento, solo puedo responder preguntas relacionadas con los datos de facturas en mi base de datos.",
                                             cached |-> FALSE, local |-> FALSE]]
               ELSE [orch EXCEPT !.pc = "summarize"]
    /\ UNCHANGED <<trace, response_cache_vars, asked, non_assistant_vars>>

\* the summarizer's _call_groq, then self.cache.set(question, answer, metadata)
Summarize ==
    /\ orch.pc = "summarize"
    /\ \E response \in Responses :
          IF response = "200"
          THEN \E answer \in Answers :
                  /\ orch' = [orch EXCEPT !.pc = "done",
                                          !.result = [success |-> TRUE, answer |-> answer,
                                                      cached |-> FALSE, local |-> FALSE]]
                  /\ cache' = set(cache, orch.question, answer,
                                  _fingerprint(orch.plan, orch.tool_runs))
                  /\ trace' = [trace EXCEPT !.admissions = Append(@, summary_tag),
                                            !.stores = @ + 1]
          ELSE /\ orch' = [orch EXCEPT !.pc = "done", !.raised = response]
               /\ cache' = cache
               /\ trace' = [trace EXCEPT !.admissions = Append(@, summary_tag)]
    /\ UNCHANGED <<gets, asked, non_assistant_vars>>

\* process_question returns or raises
Return ==
    /\ orch.pc = "done"
    /\ orch' = IdleOrch
    /\ UNCHANGED <<trace, response_cache_vars, asked, non_assistant_vars>>

\* answers age between two questions
AnswersAge ==
    /\ orch.pc = "idle"
    /\ ResponseCacheClock
    /\ UNCHANGED orchestrator_vars

NextOrchestrator ==
    \/ Ask
    \/ Lookup
    \/ PlannerCall
    \/ ParsePlan
    \/ ChoosePlan
    \/ ExecutePlan
    \/ Analyze
    \/ AfterLoop
    \/ Respond
    \/ Summarize
    \/ Return
    \/ AnswersAge

OrchestratorSpec == Init /\ [][NextOrchestrator]_vars
\* one process_question call on the empty cache, every step of it a
\* statement of the running call that is eventually executed
AskOnce == asked = 0 /\ Ask
NextOneCall ==
    \/ AskOnce
    \/ Lookup
    \/ PlannerCall
    \/ ParsePlan
    \/ ChoosePlan
    \/ ExecutePlan
    \/ Analyze
    \/ AfterLoop
    \/ Respond
    \/ Summarize
    \/ Return
    \/ AnswersAge

FairOrchestratorSpec == Init /\ [][NextOneCall]_vars /\ WF_vars(NextOneCall)

\* ------------------------------------------- _execute_plan and call_tool alone
MaxSteps == 2
\* the plans _parse_plan and _build_fallback_plan can hand to _execute_plan
RECURSIVE StepLists(_)
StepLists(n) ==
    IF n = 0 THEN {<<>>}
    ELSE StepLists(n - 1) \cup {Append(l, tool) : l \in StepLists(n - 1), tool \in tool_lookup}
ExecPlans ==
    {[needs_data |-> needs_data, steps |-> steps, notes |-> NoNotes] :
        needs_data \in BOOLEAN, steps \in StepLists(MaxSteps)}
\* how many rows a statement of a plan can match, around the caps of the
\* digest and of the sandbox, and the columns of a total and of a listing
DigestRowCounts ==
    {0, 1, AGGREGATION_THRESHOLD, AGGREGATION_THRESHOLD + 1, MAX_TOOL_ROWS,
     MAX_TOOL_ROWS + 1, MAX_RESULT_ROWS, MAX_RESULT_ROWS + 1, MAX_RESULT_ROWS + 100}
ExecOutcomes ==
    {StoreOutcome(TRUE, 0, NoColumns)}
    \cup {StoreOutcome(FALSE, n, c) :
            n \in DigestRowCounts, c \in {Columns(1, TRUE, 1), Columns(6, FALSE, 0)}}
\* the tool names and arguments a caller of call_tool can pass
ToolNames == tool_lookup \cup {"get_vendor_invoices", "drop_table"}
Arguments == {"sql", "empty", "None", "vendor_name", "vendor_name_limit"}

\* `runs = []` and the early return for a plan that needs no data
ExecuteStart ==
    /\ exec.pc = "idle"
    /\ \E plan \in ExecPlans :
          /\ plan.needs_data \/ plan.steps = <<>>
          /\ exec' = [IdleExec EXCEPT !.pc = IF plan.needs_data THEN "loop" ELSE "returned",
                                      !.plan = plan]
    /\ UNCHANGED non_execution_vars

\* one turn of `for step in plan.get("steps", [])`: the try block, or its
\* except clause when the call or the digest raises
ExecuteStep ==
    /\ exec.pc = "loop"
    /\ Len(exec.runs) < Len(exec.plan.steps)
    /\ LET tool == exec.plan.steps[Len(exec.runs) + 1] IN
       \E outcome \in ExecOutcomes, raises \in BOOLEAN :
          exec' = [exec EXCEPT !.runs = Append(@,
                     [tool |-> tool, outcome |-> outcome, raised |-> raises,
                      summary |-> IF raises THEN RaisedSummary(tool)
                                  ELSE _summarize_tool_result(
                                           tool, call_tool(tool, "sql", outcome))])]
    /\ UNCHANGED non_execution_vars

\* `return runs`
ExecuteReturn ==
    /\ exec.pc = "loop"
    /\ Len(exec.runs) = Len(exec.plan.steps)
    /\ exec' = [exec EXCEPT !.pc = "returned"]
    /\ UNCHANGED non_execution_vars

\* a call of call_tool by itself
CallTool ==
    /\ exec.pc = "idle"
    /\ \E tool_name \in ToolNames, arguments \in Arguments, outcome \in ExecOutcomes :
          exec' = [IdleExec EXCEPT !.pc = "returned",
                     !.called = <<[tool |-> tool_name, arguments |-> arguments,
                                   outcome |-> outcome,
                                   result |-> call_tool(tool_name, arguments, outcome)]>>]
    /\ UNCHANGED non_execution_vars

\* what a planner model can write as the steps of its JSON object: any list
\* of raw steps, also one longer than the prompt asks for
MaxRawSteps == 4
\* "Keep a maximum of three concise, relevant steps." (the planner prompt)
PromptMaxSteps == 3
RawSteps == tool_lookup \cup {"not_a_dict"}
RECURSIVE RawStepLists(_)
RawStepLists(n) ==
    IF n = 0 THEN {<<>>}
    ELSE RawStepLists(n - 1) \cup {Append(l, step) : l \in RawStepLists(n - 1), step \in RawSteps}
PlannerContents ==
    {Content("object", "None", TRUE, steps, FALSE) : steps \in RawStepLists(MaxRawSteps)}
        \cup {Content("invalid", "None", FALSE, <<>>, FALSE)}

\* `plan = self._parse_plan(plan_content)` of one planning attempt
ParsePlannerContent ==
    /\ exec.pc = "idle"
    /\ \E content \in PlannerContents :
          LET parsed == _parse_plan(content) IN
          exec' = [IdleExec EXCEPT !.pc = IF parsed.raised = "" THEN "parsed" ELSE "rejected",
                                   !.plan = parsed.plan,
                                   !.content = <<content>>]
    /\ UNCHANGED non_execution_vars

\* `tool_runs = self._execute_plan(plan)` of the same attempt
ExecuteParsed ==
    /\ exec.pc = "parsed"
    /\ \E tool_runs \in _execute_plan(exec.plan) :
          exec' = [exec EXCEPT !.pc = "attempted", !.tool_runs = tool_runs]
    /\ UNCHANGED non_execution_vars

\* the caller goes on
ExecuteDone ==
    /\ exec.pc \in {"returned", "rejected", "attempted"}
    /\ exec' = IdleExec
    /\ UNCHANGED non_execution_vars

NextExecution ==
    \/ ExecuteStart
    \/ ExecuteStep
    \/ ExecuteReturn
    \/ CallTool
    \/ ParsePlannerContent
    \/ ExecuteParsed
    \/ ExecuteDone

ExecutionSpec == Init /\ [][NextExecution]_vars

\* ------------------------------------------------ get_rate_limiter on its own
MaxGetterCalls == 3
MaxResets == 1
\* a thread enters get_rate_limiter
GetRateLimiter(t) ==
    /\ getter[t].pc = "idle"
    /\ Cardinality(obtained) + Cardinality({u \in Threads : getter[u].pc # "idle"})
          < MaxGetterCalls
    /\ getter' = [getter EXCEPT ![t] = [pc |-> "test", since |-> resets]]
    /\ UNCHANGED <<_rate_limiter, instances, obtained, resets, non_singleton_vars>>

\* `if _rate_limiter is None:`
TestGlobal(t) ==
    /\ getter[t].pc = "test"
    /\ getter' = [getter EXCEPT ![t].pc = IF _rate_limiter = 0 THEN "create" ELSE "return"]
    /\ UNCHANGED <<_rate_limiter, instances, obtained, resets, non_singleton_vars>>

\* `_rate_limiter = LLMRateLimiter()`
CreateInstance(t) ==
    /\ getter[t].pc = "create"
    /\ instances' = instances + 1
    /\ _rate_limiter' = instances + 1
    /\ getter' = [getter EXCEPT ![t].pc = "return"]
    /\ UNCHANGED <<obtained, resets, non_singleton_vars>>

\* `return _rate_limiter`
ReturnGlobal(t) ==
    /\ getter[t].pc = "return"
    /\ obtained' = obtained \cup {[thread |-> t, since |-> getter[t].since,
                                    until |-> resets, instance |-> _rate_limiter]}
    /\ getter' = [getter EXCEPT ![t] = IdleGetter]
    /\ UNCHANGED <<_rate_limiter, instances, resets, non_singleton_vars>>

\* reset_rate_limiter
ResetRateLimiter ==
    /\ resets < MaxResets
    /\ _rate_limiter' = 0
    /\ resets' = resets + 1
    /\ UNCHANGED <<instances, getter, obtained, non_singleton_vars>>

Getter(t) ==
    \/ GetRateLimiter(t)
    \/ TestGlobal(t)
    \/ CreateInstance(t)
    \/ ReturnGlobal(t)

NextSingleton ==
    \/ ResetRateLimiter
    \/ \E t \in Threads : Getter(t)

SingletonSpec == Init /\ [][NextSingleton]_vars

\* ------------------------------------------------- the validator on its own
ValidationInit ==
    /\ QuotaInit
    /\ SandboxInit
    /\ submitted \in SqlInputs
    /\ verdict = NoVerdict
    /\ AssistantInit

ValidateQuery ==
    /\ verdict = NoVerdict
    /\ verdict' = _validate_query(submitted)
    /\ UNCHANGED <<submitted, non_validation_vars>>

ValidationSpec == ValidationInit /\ [][ValidateQuery]_vars

\* ---------------------------------------------------------------- claims
WindowCounts(e, mr, dr) == CurrentUsage(e, mr, dr)

WithinCeilings(u) ==
    /\ u.rpm <= rpm_limit
    /\ u.rpd <= rpd_limit
    /\ u.tpm <= tpm_limit
    /\ u.tpd <= tpd_limit

\* C1: under any interleaving of concurrent check_and_wait callers, right
\* after an entry is appended the minute and day request counts and the
\* minute and day token sums are all within their ceilings.
C1_AdmissionWithinCeilings ==
    [][next_id' # next_id =>
          WithinCeilings(WindowCounts(entry', minute_requests', day_requests'))]_vars

\* C1 witness: an admission has filled the minute window while another
\* caller is inside check_and_wait.
C1_Witness ==
    /\ next_id >= 2
    /\ Len(minute_requests) = rpm_limit
    /\ \E t \in Threads : pc[t] \in {"lock_wait", "check", "sleep"}

\* C2 (as claimed): a caller whose admission check failed holds no lock
\* while it sleeps.
C2_SleeperHoldsNoLock ==
    \A t \in Threads : pc[t] = "sleep" => lock # t

\* C3 (as claimed): under a fair scheduler and advancing time every
\* check_and_wait call whose estimate fits under both token ceilings is
\* eventually admitted, whatever the other callers request.
C3_NoStarvation ==
    \A t \in Threads :
        (pc[t] = "lock_wait" /\ call[t].est <= tpm_limit /\ call[t].est <= tpd_limit)
            ~> (pc[t] = "idle")

\* C4: of two concurrent callers whose estimates fit under tpm_limit alone
\* but not together, the first admission is made without sleeping, the
\* second is made only once the first entry is older than a minute and has
\* left the minute window, and both are eventually admitted.
C4_OneNowOneAfterRotation ==
    /\ [][(next_id = 0 /\ next_id' = 1) =>
            \E t \in Threads : pc[t] = "check" /\ pc'[t] = "idle" /\ ~call[t].waited]_vars
    /\ [][(next_id = 1 /\ next_id' = 2) =>
            /\ entry[0].age > MINUTE
            /\ 0 \notin Range(minute_requests')]_vars
    /\ <>(next_id = 2)

\* C4 witness: both callers have been admitted and only the second entry is
\* in the minute window.
C4_Witness ==
    /\ next_id = 2
    /\ minute_requests = <<1>>
    /\ \A t \in Threads : pc[t] = "idle"

RECURSIVE SumRequests(_, _)
SumRequests(ub, S) ==
    IF S = {} THEN 0
    ELSE LET t == CHOOSE x \in S : TRUE
         IN  ub[t].requests + SumRequests(ub, S \ {t})

InWindow(s, id) == IF id \in Range(s) THEN 1 ELSE 0

\* what a cancellation of the live entry id leaves behind, apart from the
\* counts: the id is gone from both windows and from the lookup table and
\* every other entry is as it was
CancelGone(id) ==
    /\ id \notin Range(minute_requests')
    /\ id \notin Range(day_requests')
    /\ entries' = entries \ {id}
    /\ id \notin DOMAIN entry'
    /\ Range(minute_requests') = Range(minute_requests) \ {id}
    /\ Range(day_requests') = Range(day_requests) \ {id}
    /\ \A j \in (DOMAIN entry) \ {id} : j \in DOMAIN entry' /\ entry'[j] = entry[j]

\* C5 (as claimed): cancel_request on a live entry removes it from both
\* windows and the lookup table, both request counts drop by one, both
\* token sums drop by the entry's tokens and the other entries are unchanged.
C5_CancelDropsEveryCount ==
    [][\A id \in EntryIds : (id \in entries /\ cancel_request(id)) =>
          /\ CancelGone(id)
          /\ Len(minute_requests') = Len(minute_requests) - 1
          /\ Len(day_requests') = Len(day_requests) - 1
          /\ SumTokens(entry', minute_requests')
                = SumTokens(entry, minute_requests) - entry[id].tokens
          /\ SumTokens(entry', day_requests')
                = SumTokens(entry, day_requests) - entry[id].tokens]_vars

\* C5 (amended): cancel_request on a live entry removes it from both windows
\* and the lookup table; the day count drops by one and the day token sum by
\* the entry's tokens; the minute count and the minute token sum drop by the
\* same amounts when the entry was still in the minute window and are
\* unchanged when it had already been pruned from it; the other entries are
\* unchanged and the entry is not kept with zero tokens.
C5_CancelRemovesEntry ==
    [][\A id \in EntryIds : (id \in entries /\ cancel_request(id)) =>
          /\ CancelGone(id)
          /\ Len(minute_requests')
                = Len(minute_requests) - InWindow(minute_requests, id)
          /\ Len(day_requests') = Len(day_requests) - 1
          /\ SumTokens(entry', minute_requests')
                = SumTokens(entry, minute_requests)
                    - InWindow(minute_requests, id) * entry[id].tokens
          /\ SumTokens(entry', day_requests')
                = SumTokens(entry, day_requests) - entry[id].tokens]_vars

\* C5 witness: of two admitted entries one has been cancelled (the per-tag
\* request counters add up to one) and the other is still live.
C5_Witness ==
    /\ next_id = 2
    /\ entries = {1}
    /\ day_requests = <<1>>
    /\ SumRequests(usage_breakdown, DOMAIN usage_breakdown) = 1


\* an entry still at its provisional estimate
Provisional(id) == id \in entries /\ ~entry[id].finalized

\* C6: when a model call (_call_groq, chat_completion) has returned or
\* raised, none of the entries admitted for it is left at its provisional
\* estimate: each was finalized by record_actual_tokens or removed.
C6_NoProvisionalEntryAtExit ==
    \A t \in Threads :
        (client[t].fn \in {"_call_groq", "chat_completion"}
            /\ client[t].pc \in {"returned", "raised"}) =>
            \A id \in client[t].owned : ~Provisional(id)

Validated == verdict # NoVerdict

\* a forbidden keyword somewhere in the text, in any letter case
ContainsForbidden(s) ==
    \E keyword \in FORBIDDEN_SQL_KEYWORDS : contains(upper(s), keyword)

\* C7: a text that contains a forbidden keyword anywhere, in any letter case,
\* with or without leading comments, is rejected by _validate_query.
C7_ForbiddenKeywordRejected ==
    (Validated /\ ContainsForbidden(submitted)) => ~verdict.valid

\* where the block comment that opens s ends: the first "*/" that comes
\* after the two characters of its "/*"
CommentEnd(s) ==
    LET after == {i \in Occurrences(s, <<"*", "/">>) : i >= 2}
    IN  IF after = {} THEN -1 ELSE Min(after)

\* the text with its leading white space, `--` comments and `/* */` comments
\* taken off, or the fact that a leading block comment never ends
RECURSIVE LeadingStripped(_)
LeadingStripped(s) ==
    LET t == lstrip(s)
    IN  IF startswith(t, <<"-", "-">>)
        THEN IF find(t, <<"\n">>) = -1
             THEN [unterminated |-> FALSE, text |-> <<>>]
             ELSE LeadingStripped(From(t, find(t, <<"\n">>) + 1))
        ELSE IF startswith(t, <<"/", "*">>)
        THEN IF CommentEnd(t) = -1
             THEN [unterminated |-> TRUE, text |-> t]
             ELSE LeadingStripped(From(t, CommentEnd(t) + 2))
        ELSE [unterminated |-> FALSE, text |-> t]

BeginsAllowed(s) == \E kw \in ALLOWED_SQL_KEYWORDS : startswith(upper(s), kw)

\* C8: a text that, once leading white space and leading comments are
\* stripped, does not begin with SELECT, PRAGMA or EXPLAIN in any letter
\* case is rejected; so is a text that is empty after stripping and a text
\* whose leading block comment is not terminated.
C8_NotAllowedStartRejected ==
    Validated =>
        LET r == LeadingStripped(submitted)
        IN  (r.unterminated \/ ~BeginsAllowed(r.text)) => ~verdict.valid

\* the narrower reading of C7, which fails as well: a forbidden keyword in
\* the statement itself, after its leading comments, is rejected
ForbiddenStatementRejected ==
    (Validated /\ ~LeadingStripped(submitted).unterminated
               /\ ContainsForbidden(LeadingStripped(submitted).text)) => ~verdict.valid

FailsValidation(q) == ~_validate_query(q).valid

\* C9: execute_query on a query that fails validation returns at once, does
\* not raise, and returns success=false with an error text, no rows and
\* row_count 0; it has not executed anything on the backing store and has
\* neither read nor changed the query cache.
C9_RejectedQueryTouchesNothing ==
    /\ [](\A t \in Threads :
            (sb[t].pc # "idle" /\ FailsValidation(sb[t].sql)) =>
                /\ sb[t].pc = "done"
                /\ sb[t].raised = ""
                /\ sb[t].result.success = FALSE
                /\ sb[t].result.error # ""
                /\ sb[t].result.rows = 0
                /\ sb[t].result.row_count = 0
                /\ ~sb[t].executed
                /\ ~sb[t].cache_read
                /\ ~sb[t].cache_changed)
    /\ [][\A t \in Threads :
            (sb[t].pc = "idle" /\ sb'[t].pc # "idle" /\ FailsValidation(sb'[t].sql)) =>
                query_cache' = query_cache /\ store' = store]_vars

\* a rejected query has returned while the cache holds an entry
C9_Witness ==
    \E t \in Threads :
        /\ sb[t].pc = "done"
        /\ FailsValidation(sb[t].sql)
        /\ sb[t].result.success = FALSE
        /\ DOMAIN query_cache # {}

\* thread t's call has returned a successful result
ReturnedSuccess(t) ==
    sb[t].pc = "done" /\ sb[t].raised = "" /\ sb[t].result.success

ResultShape(r) ==
    /\ r.returned_rows <= r.row_count
    /\ r.returned_rows <= 500
    /\ r.truncated => r.returned_rows < r.row_count

SixHundred(r) == r.row_count = 600 /\ r.returned_rows = 500 /\ r.truncated

\* C10 as stated: every successful result has returned_rows <= row_count,
\* returned_rows <= 500, truncated => returned_rows < row_count, truncated
\* exactly when the statement matches more than 500 rows in the store, and
\* a statement matching 600 rows gives 600 / 500 / truncated.
C10_TruncatedIffStoreHasMore ==
    \A t \in Threads :
        ReturnedSuccess(t) =>
            /\ ResultShape(sb[t].result)
            /\ sb[t].result.truncated <=> (sb[t].matching > 500)
            /\ sb[t].matching = 600 => SixHundred(sb[t].result)

\* C10 amended: every successful result has returned_rows <= row_count,
\* returned_rows <= 500, truncated => returned_rows < row_count and
\* truncated exactly when its row_count exceeds 500; a result produced by
\* executing the statement reports the rows the statement matched then, so
\* 600 matching rows give 600 / 500 / truncated; a result served from the
\* query cache is never truncated.
C10_ResultWithinCap ==
    \A t \in Threads :
        ReturnedSuccess(t) =>
            /\ ResultShape(sb[t].result)
            /\ sb[t].result.truncated <=> (sb[t].result.row_count > 500)
            /\ sb[t].executed =>
                  /\ sb[t].result.row_count = sb[t].matching
                  /\ sb[t].matching = 600 => SixHundred(sb[t].result)
            /\ ~sb[t].executed => ~sb[t].result.truncated

\* a statement matching 600 rows has been executed and has returned
C10_Witness ==
    \E t \in Threads :
        /\ ReturnedSuccess(t)
        /\ sb[t].executed
        /\ sb[t].matching = 600
        /\ SixHundred(sb[t].result)

\* C11: every entry of the query cache holds a result with success=true and
\* truncated=false; an entry appears or changes only when a caller stores
\* the successful, non-truncated result it has just computed; and a lookup
\* serves an entry only while it is at most 60 s old.
C11_CacheHoldsFreshSuccessOnly ==
    /\ [](\A k \in DOMAIN query_cache :
            query_cache[k].payload.success /\ ~query_cache[k].payload.truncated)
    /\ [][\A k \in DOMAIN query_cache' :
            (k \notin DOMAIN query_cache \/ query_cache'[k].payload # query_cache[k].payload) =>
                \E t \in Threads :
                    /\ sb[t].pc = "store"
                    /\ sb[t].executed
                    /\ _cache_key(sb[t].sql) = k
                    /\ query_cache'[k].payload = sb[t].result]_vars
    /\ [][\A t \in Threads :
            (sb[t].pc = "lookup" /\ sb'[t].pc = "done") =>
                LET key == _cache_key(sb[t].sql)
                IN  /\ key \in DOMAIN query_cache
                    /\ query_cache[key].age <= QUERY_CACHE_TTL_SECONDS * 10
                    /\ sb'[t].result = query_cache[key].payload]_vars

\* an entry exactly 60 s old has been served while another caller of the
\* same statement got a truncated result that is not in the cache
C11_Witness ==
    \E t, u \in Threads :
        /\ sb[t].pc = "done" /\ sb[t].cache_read /\ ~sb[t].executed
        /\ sb[t].result.success
        /\ \E k \in DOMAIN query_cache : query_cache[k].age = QUERY_CACHE_TTL_SECONDS * 10
        /\ sb[u].pc = "done" /\ sb[u].executed
        /\ sb[u].result.success /\ sb[u].result.truncated

\* C12: ResponseCache.get returns no entry for a question once now - stored_at
\* >= ttl: every entry a get returned was younger than ttl when it was
\* returned, and a get that finds an expired entry returns nothing and leaves
\* the cache without it.
C12_ExpiredAnswerNeverReturned ==
    /\ [](\A i \in DOMAIN gets : gets[i].found => gets[i].age < ttl_seconds)
    /\ [][Len(gets') > Len(gets) =>
            LET call_ == gets'[Len(gets')]
                key == _generate_key(call_.question)
            IN  (key \in DOMAIN cache /\ cache[key].age >= ttl_seconds) =>
                    (~call_.found /\ key \notin DOMAIN cache')]_vars

C12_Witness ==
    \E i, j \in DOMAIN gets :
        /\ i < j
        /\ gets[i].found /\ gets[i].age = ttl_seconds - 1
        /\ _generate_key(gets[j].question) = _generate_key(gets[i].question)
        /\ ~gets[j].found
        /\ _generate_key(gets[j].question) \notin DOMAIN cache
        /\ DOMAIN cache # {}

\* C13: when the plan parsed in an attempt has needs_data = false and no
\* steps and a fallback plan exists for the question, the next thing
\* process_question does is run the fallback plan, in that same attempt and
\* before any further planner call.
EmptyPlan(o) == ~o.plan.needs_data /\ o.plan.steps = <<>>
HasFallback(question) == _build_fallback_plan(question) # NoPlan
C13_EmptyPlanRunsFallbackAtOnce ==
    [][(orch.pc = "choose" /\ EmptyPlan(orch) /\ HasFallback(orch.question)) =>
            /\ orch'.pc = "execute"
            /\ orch'.plan = _build_fallback_plan(orch.question)
            /\ orch'.attempt = orch.attempt
            /\ trace'.admissions = trace.admissions
            /\ \A runs \in _execute_plan(orch'.plan) : runs # <<>>]_vars
    /\ [][(orch.pc = "execute" /\ orch.used_fallback) =>
            /\ orch'.pc = "analyze"
            /\ orch'.attempt = orch.attempt
            /\ orch'.tool_runs \in _execute_plan(_build_fallback_plan(orch.question))
            /\ trace'.executions = Append(trace.executions, "Plan produced by heuristic fallback.")
            /\ trace'.admissions = trace.admissions]_vars

\* the planner declined in its second attempt and the fallback plan has run
\* in that attempt
C13_Witness ==
    /\ orch.pc = "analyze"
    /\ orch.attempt = 2
    /\ orch.plan_content.json = "object" /\ orch.plan_content.steps = <<>>
    /\ orch.plan_content.needs_data = "False"
    /\ orch.used_fallback
    /\ Len(trace.admissions) = 2
    /\ trace.executions[Len(trace.executions)] = "Plan produced by heuristic fallback."

\* C14: within one process_question call the fallback plan is substituted
\* and executed at most once, inside the attempt loop or after it.
FallbackRuns == {i \in DOMAIN trace.executions :
                    trace.executions[i] = "Plan produced by heuristic fallback."}
C14_FallbackAtMostOnce ==
    /\ trace.applied <= 1
    /\ Cardinality(FallbackRuns) <= 1
    /\ Cardinality(FallbackRuns) <= trace.applied

\* four planner attempts left an issue and the fallback plan ran after them
C14_Witness ==
    /\ orch.pc = "respond"
    /\ orch.attempt = MAX_PLAN_ATTEMPTS
    /\ Len(trace.executions) = MAX_PLAN_ATTEMPTS + 1
    /\ trace.applied = 1
    /\ orch.last_issue # NoIssue

\* C15: process_question on a greeting such as "hola", or on an empty
\* question, returns a local reply before any answer-cache lookup, planner
\* call, summarizer call, tool execution or rate-limiter admission.
GreetingOrEmpty(question) == lower(strip(question)) \in greetings \cup {<<>>}
C15_GreetingAnsweredLocally ==
    /\ []((orch.pc # "idle" /\ GreetingOrEmpty(orch.question)) =>
            /\ orch.pc = "done"
            /\ orch.raised = ""
            /\ orch.result.success /\ orch.result.local /\ ~orch.result.cached
            /\ trace = NoTrace)
    /\ [][(orch.pc = "idle" /\ orch'.pc # "idle" /\ GreetingOrEmpty(orch'.question)) =>
            UNCHANGED <<response_cache_vars, non_assistant_vars>>]_vars

\* " Hola\n" is answered locally while the answer cache holds an answer
C15_Witness ==
    /\ orch.pc = "done"
    /\ orch.question # hola /\ lower(strip(orch.question)) = hola
    /\ orch.result.local
    /\ asked = 2
    /\ DOMAIN cache # {}

\* C16: for a needs_data plan whose single execute_sql_query run succeeded
\* with row_count = 0, _analyze_tool_runs reports the issue flagged
\* zero_rows, not the issue of a failed execution, and the retry feedback
\* built from that issue says that the query returned zero rows.
SqlRuns(o) == {i \in DOMAIN o.tool_runs : o.tool_runs[i].tool = "execute_sql_query"}
SingleSqlRunWithoutRows(o) ==
    /\ o.plan.needs_data
    /\ Cardinality(SqlRuns(o)) = 1
    /\ \A i \in SqlRuns(o) :
          o.tool_runs[i].success /\ ~o.tool_runs[i].error /\ o.tool_runs[i].row_count = 0
ZeroRowsIssue(issue) ==
    issue.zero_rows /\ issue.error = "The query returned zero rows."
MentionsZeroRows(feedback) ==
    \E i \in DOMAIN feedback :
        feedback[i] = "The query returned zero rows. Double-check table names, joins, and filters before proposing the next SQL statement."
C16_ZeroRowsIsSoftIssue ==
    /\ [][(orch.pc = "analyze" /\ SingleSqlRunWithoutRows(orch)) =>
            /\ ZeroRowsIssue(orch'.last_issue)
            /\ ~orch.used_fallback =>
                  /\ orch'.feedback_history = orch.feedback_history + 1
                  /\ MentionsZeroRows(orch'.feedback)]_vars
    /\ [][(orch.pc = "after_loop" /\ SingleSqlRunWithoutRows(orch')) =>
            ZeroRowsIssue(orch'.last_issue)]_vars

\* the first attempt's query returned no rows and the second attempt is
\* about to be made with that feedback
C16_Witness ==
    /\ orch.pc = "plan" /\ orch.attempt = 2
    /\ SingleSqlRunWithoutRows(orch)
    /\ ZeroRowsIssue(orch.last_issue)
    /\ MentionsZeroRows(orch.feedback)

\* C17: one process_question call makes at most MAX_PLAN_ATTEMPTS planner
\* model calls, tagged with the attempt numbers 1, 2, 3, 4 in increasing
\* order, and at most one summarizer model call, after them: at most five
\* admissions by the rate limiter; and the call ends once its model calls
\* and tool executions return.
PlannerCalls == {i \in DOMAIN trace.admissions :
                    trace.admissions[i][1] = "assistant_plan_attempt"}
SummarizerCalls == {i \in DOMAIN trace.admissions : trace.admissions[i] = summary_tag}
C17_BoundedModelCalls ==
    /\ [](/\ Cardinality(PlannerCalls) <= MAX_PLAN_ATTEMPTS
          /\ \A i \in PlannerCalls :
                /\ i <= Cardinality(PlannerCalls)
                /\ trace.admissions[i] = <<"assistant_plan_attempt", i>>
          /\ Cardinality(SummarizerCalls) <= 1
          /\ Len(trace.admissions) = Cardinality(PlannerCalls) + Cardinality(SummarizerCalls)
          /\ Len(trace.admissions) <= MAX_PLAN_ATTEMPTS + 1)
    /\ (orch.pc # "idle" ~> orch.pc = "done")

\* four planner calls and the summarizer call have been admitted
C17_Witness ==
    /\ orch.pc = "done"
    /\ trace.admissions = <<plan_tag(1), plan_tag(2), plan_tag(3), plan_tag(4), summary_tag>>

\* C18: whatever the planner model returned (invalid JSON, JSON that is not
\* an object, an object whose steps is not a list, a well-formed plan),
\* planning goes on with the parsed plan or with the degraded empty plan: no
\* exception caused by the model's output leaves _plan_with_feedback.
BackendFailures == {"429", "500", "Timeout"}
C18_PlannerOutputNeverEscapes ==
    /\ [](orch.raised \in {""} \cup BackendFailures)
    /\ [][orch.pc = "parse" =>
            /\ orch'.pc = "choose"
            /\ \/ orch'.plan = DegradedPlan
               \/ orch'.plan = _parse_plan(orch.plan_content).plan]_vars

\* C19: a planner or summarizer model call of process_question that gets an
\* HTTP 429 or 5xx response is made again, up to a fixed number of attempts:
\* the call is not given up, and process_question not aborted, on the first
\* such response.
TransientFailures == {"429", "500"}
AdmissionsOf(tag, admissions) == {i \in DOMAIN admissions : admissions[i] = tag}
C19_TransientFailureRetried ==
    [][(orch.raised = "" /\ orch'.raised \in TransientFailures) =>
            LET made == trace'.admissions
            IN  Cardinality(AdmissionsOf(made[Len(made)], made)) > 1]_vars

\* C20: chat_completion and call_llm make at most 4 attempts per call;
\* after an HTTP 429, 500, 502 or 503 response the attempt's entry is
\* cancelled before the pause and before the next attempt is admitted, so a
\* call never has more than one live entry in the limiter; and when all 4
\* attempts fail with such a response the call raises.
Retrying == {"chat_completion", "call_llm"}
LiveEntries(t) == client[t].owned \cap entries
C20_RetryKeepsOneLiveEntry ==
    /\ [](\A t \in Threads : client[t].fn \in Retrying =>
            /\ client[t].attempts <= MAX_ATTEMPTS
            /\ Cardinality(client[t].owned) <= MAX_ATTEMPTS
            /\ Cardinality(LiveEntries(t)) <= 1)
    /\ [][\A t \in Threads :
            (client[t].fn \in Retrying /\ client[t].pc = "handle"
                /\ client'[t].pc # "handle" /\ client[t].outcome \in {"429", "500"}) =>
                /\ client[t].entry_id \notin entries'
                /\ client[t].attempts = MAX_ATTEMPTS => client'[t].pc = "raised"
                /\ client[t].attempts < MAX_ATTEMPTS => client'[t].pc = "check_and_wait"]_vars

\* call_llm alone: at most 4 attempts, at most one live entry, the entry of
\* a 429 or 5xx attempt cancelled before the next one
CallLlmKeepsOneLiveEntry ==
    /\ [](\A t \in Threads : client[t].fn = "call_llm" =>
            /\ client[t].attempts <= MAX_ATTEMPTS
            /\ Cardinality(LiveEntries(t)) <= 1)
    /\ [][\A t \in Threads :
            (client[t].fn = "call_llm" /\ client[t].pc = "handle"
                /\ client'[t].pc # "handle" /\ client[t].outcome \in {"429", "500"}) =>
                /\ client[t].entry_id \notin entries'
                /\ client[t].attempts = MAX_ATTEMPTS => client'[t].pc = "raised"]_vars

\* C21: the answer cache gets an entry for a question only when a
\* summarizer call for that question has completed: a local reply, a cache
\* hit, the answer without data and a call whose planner or summarizer call
\* raised write nothing; and the entry stored carries the fingerprint of the
\* plan and of the tool runs the answer was made from.
Written(k) ==
    /\ k \in DOMAIN cache'
    /\ k \notin DOMAIN cache \/ cache'[k].answer # cache[k].answer
          \/ cache'[k].fingerprint # cache[k].fingerprint \/ cache'[k].age < cache[k].age
C21_CacheWrittenAfterSummaryOnly ==
    /\ [][\A k \in DOMAIN cache' : Written(k) =>
            /\ orch.pc = "summarize" /\ orch'.pc = "done" /\ orch'.raised = ""
            /\ k = strip(lower(orch.question))
            /\ orch.plan.needs_data \/ orch.tool_runs # <<>>
            /\ trace'.admissions[Len(trace'.admissions)] = summary_tag
            /\ cache'[k].answer = orch'.result.answer
            /\ cache'[k].age = 0
            /\ cache'[k].fingerprint[1] = orch.plan.steps
            /\ cache'[k].fingerprint[2] =
                  [i \in DOMAIN orch.tool_runs |->
                      <<orch.tool_runs[i].tool, orch.tool_runs[i].row_count>>]]_vars
    /\ [](orch.pc = "done" =>
            /\ (orch.result.local \/ orch.result.cached \/ orch.raised # "") => trace.stores = 0
            /\ trace.stores = 1 <=>
                  (orch.raised = "" /\ \E i \in DOMAIN trace.admissions :
                                          trace.admissions[i] = summary_tag))

\* a second question has been summarized and stored next to the first
C21_Witness ==
    /\ orch.pc = "done" /\ trace.stores = 1 /\ asked = 2
    /\ Cardinality(DOMAIN cache) = 2
    /\ cache[strip(lower(orch.question))].fingerprint # <<>>
    /\ cache[strip(lower(orch.question))].age = 0
    /\ orch.used_fallback


\* C22: when the lookup of process_question finds an entry of the normalised
\* question that has not expired, the call returns that entry's answer with
\* cached = TRUE, and the call has made no planner or summarizer call, asked
\* the limiter for no admission and executed no plan; and a planner call is
\* always made after the lookup of its call.
Unexpired(question) ==
    /\ strip(lower(question)) \in DOMAIN cache
    /\ cache[strip(lower(question))].age < ttl_seconds
C22_CacheHitAnswersAlone ==
    /\ [][(orch.pc = "lookup" /\ Unexpired(orch.question)) =>
            /\ orch'.pc = "done" /\ orch'.raised = ""
            /\ orch'.result = [success |-> TRUE, cached |-> TRUE, local |-> FALSE,
                               answer |-> cache[strip(lower(orch.question))].answer]
            /\ cache' = cache
            /\ trace' = [NoTrace EXCEPT !.lookups = 1]]_vars
    /\ [](orch.pc = "done" /\ orch.result.cached =>
            trace = [NoTrace EXCEPT !.lookups = 1])
    /\ [](trace.admissions # <<>> \/ orch.pc = "plan" => trace.lookups = 1)
    /\ [](trace.lookups <= 1)

\* a question answered by the summarizer is asked again one second before
\* its entry expires
C22_Witness ==
    /\ orch.pc = "done" /\ orch.result.cached /\ asked = 2
    /\ orch.result.answer \in Answers
    /\ cache[strip(lower(orch.question))].age = ttl_seconds - 1
    /\ trace.admissions = <<>> /\ trace.executions = <<>>


\* C23: a failure of the data layer is never an exception for the caller:
\* for every tool name, every arguments and every failure of the backing
\* store, call_tool returns a result with success = FALSE and an error text,
\* and _execute_plan records the step as a run with success = FALSE and the
\* error text.
FailedCall(c) ==
    \/ c.outcome.fails
    \/ c.tool = "drop_table"
    \/ c.tool = "get_vendor_invoices" /\ c.arguments \notin {"vendor_name", "vendor_name_limit"}
    \/ c.tool = "execute_sql_query" /\ c.arguments # "sql"
    \/ c.tool = "get_recent_invoices" /\ c.arguments = "None"
C23_DataErrorsAreStructured ==
    /\ \A i \in DOMAIN exec.called :
          FailedCall(exec.called[i]) =>
              ~exec.called[i].result.success /\ exec.called[i].result.error
    /\ \A i \in DOMAIN exec.runs :
          (exec.runs[i].outcome.fails \/ exec.runs[i].raised) =>
              ~exec.runs[i].summary.success /\ exec.runs[i].summary.error

\* the same for every tool but get_database_schema, whose failed load of
\* the schema comes back as success = TRUE
DataErrorsOfQueryToolsAreStructured ==
    /\ \A i \in DOMAIN exec.called :
          (FailedCall(exec.called[i]) /\ exec.called[i].tool # "get_database_schema") =>
              ~exec.called[i].result.success /\ exec.called[i].result.error
    /\ \A i \in DOMAIN exec.runs :
          ((exec.runs[i].outcome.fails /\ exec.runs[i].tool # "get_database_schema")
              \/ exec.runs[i].raised) =>
              ~exec.runs[i].summary.success /\ exec.runs[i].summary.error

\* process_question goes on after a failed run: the step that executes the
\* plan hands its runs to diagnostics, and a call that ends with a failed
\* run has called the summarizer unless a model call raised
FailedRuns(o) == {i \in DOMAIN o.tool_runs : ~o.tool_runs[i].success}
DataErrorsReachSummary ==
    /\ [][orch.pc = "execute" => orch'.pc = "analyze" /\ orch'.raised = ""]_vars
    /\ [](orch.pc = "done" /\ FailedRuns(orch) # {} /\ orch.raised = "" =>
             \E i \in DOMAIN trace.admissions : trace.admissions[i] = summary_tag)


\* C24: in call_llm a timeout of the fourth and last attempt is raised to
\* the caller with that attempt's entry left in the limiter exactly as it
\* was admitted, while a timeout of one of the first three attempts cancels
\* the attempt's entry before the next attempt starts.
TimedOut(t) ==
    /\ client[t].fn = "call_llm" /\ client[t].pc = "handle"
    /\ client[t].outcome = "Timeout"
    /\ client'[t] # client[t]
C24_LastTimeoutLeavesEntryCounted ==
    [][\A t \in Threads : TimedOut(t) =>
          IF client[t].attempts = MAX_ATTEMPTS
          THEN /\ client'[t].pc = "raised"
               /\ UNCHANGED limiter_vars
          ELSE /\ client'[t].pc = "check_and_wait"
               /\ client'[t].attempts = client[t].attempts + 1
               /\ client[t].entry_id \notin entries'
               /\ client[t].entry_id \notin Range(minute_requests')
               /\ client[t].entry_id \notin Range(day_requests')]_vars

\* the fourth attempt has timed out and its entry is still counted, after
\* the entries of the first three attempts have been cancelled
C24_Witness ==
    \E t \in Threads :
        /\ client[t].fn = "call_llm" /\ client[t].pc = "raised"
        /\ client[t].outcome = "Timeout" /\ client[t].attempts = MAX_ATTEMPTS
        /\ client[t].entry_id \in entries
        /\ client[t].entry_id \in Range(minute_requests)
        /\ Cardinality(entries) = 1


\* C25: for a plan that needs data _execute_plan returns one run for each
\* step of the plan, in the order of the plan; a step whose tool reports a
\* failure or whose execution raises is recorded with success = FALSE, and
\* the steps after it are executed all the same.
FailingStep(run) ==
    run.raised \/ ~call_tool(run.tool, "sql", run.outcome).success
C25_OneRunPerStepInOrder ==
    /\ [](\A i \in DOMAIN exec.runs :
             /\ i <= Len(exec.plan.steps)
             /\ exec.runs[i].tool = exec.plan.steps[i]
             /\ exec.runs[i].summary.tool = exec.plan.steps[i]
             /\ FailingStep(exec.runs[i]) => ~exec.runs[i].summary.success)
    /\ [](exec.pc = "returned" /\ exec.plan.needs_data =>
             Len(exec.runs) = Len(exec.plan.steps))
    /\ [][exec.pc = "loop" /\ Len(exec.runs) < Len(exec.plan.steps) =>
             /\ exec'.pc = "loop"
             /\ Len(exec'.runs) = Len(exec.runs) + 1
             /\ SubSeq(exec'.runs, 1, Len(exec.runs)) = exec.runs]_vars

\* the first step raised, the second failed in the store, and the plan of
\* two steps has returned its two runs
C25_Witness ==
    /\ exec.pc = "returned" /\ exec.plan.needs_data
    /\ exec.plan.steps = <<"get_database_schema", "execute_sql_query">>
    /\ Len(exec.runs) = 2
    /\ exec.runs[1].raised /\ ~exec.runs[1].summary.success
    /\ ~exec.runs[2].raised /\ exec.runs[2].outcome.fails
    /\ ~exec.runs[2].summary.success


\* C26: when the plan of an attempt says needs_data = FALSE, no planner call
\* is made after that attempt; and when the question has no fallback plan,
\* that attempt executes no tool and process_question answers with the
\* plan's notes, or with the fixed out-of-domain message, without calling
\* the summarizer and without writing to the cache.
Planned(o) ==
    /\ o.plan_content # NoContent
    /\ _parse_plan(o.plan_content).raised \in {"", "PlanParseError"}
DeclaredPlan(o) ==
    IF _parse_plan(o.plan_content).raised = "PlanParseError" THEN DegradedPlan
    ELSE _parse_plan(o.plan_content).plan
Declines(o) == Planned(o) /\ ~DeclaredPlan(o).needs_data
OutOfDomain ==
    "Lo siento, solo puedo responder preguntas relacionadas con los datos de facturas en mi base de datos."
C26_DeclinedPlanEndsPlanning ==
    /\ [][(orch.pc \in {"choose", "execute", "analyze", "after_loop", "respond", "summarize"}
             /\ Declines(orch)) =>
            /\ orch'.pc # "plan"
            /\ orch'.attempt = orch.attempt
            /\ orch'.plan_content = orch.plan_content
            /\ Cardinality({i \in DOMAIN trace'.admissions :
                               trace'.admissions[i][1] = "assistant_plan_attempt"})
                  = orch.attempt]_vars
    /\ [](orch.pc \in {"analyze", "after_loop", "respond", "done"} /\ orch.raised = ""
             /\ Declines(orch) /\ orch.fallback_plan = NoPlan =>
                /\ orch.tool_runs = <<>>
                /\ orch.plan = DeclaredPlan(orch)
                /\ trace.stores = 0
                /\ \A i \in DOMAIN trace.admissions : trace.admissions[i] # summary_tag
                /\ orch.pc = "done" =>
                      /\ orch.result.success /\ ~orch.result.cached
                      /\ orch.result.answer =
                            IF DeclaredPlan(orch).notes # NoNotes
                            THEN DeclaredPlan(orch).notes ELSE OutOfDomain)

\* the second attempt's plan declined after the first attempt's query had
\* found no rows, and the call answered with the out-of-domain message
C26_Witness ==
    /\ orch.pc = "done" /\ orch.raised = "" /\ orch.attempt = 2
    /\ Declines(orch) /\ orch.fallback_plan = NoPlan
    /\ _parse_plan(orch.plan_content).raised = ""
    /\ Len(trace.executions) = 2
    /\ orch.result.answer = OutOfDomain


\* C27: once the fallback plan has been executed and diagnostics still
\* reports an issue, process_question makes no further planner call and
\* executes no further plan, and it goes on to the summarizer call with the
\* fallback plan and the runs of the fallback plan.
FallbackLeftIssue(o) ==
    /\ o.pc \in {"after_loop", "respond", "summarize", "done"}
    /\ o.used_fallback /\ o.last_issue # NoIssue
C27_FailedFallbackIsSummarized ==
    /\ [](orch.pc \in {"plan", "parse", "choose"} => ~orch.used_fallback)
    /\ [](FallbackLeftIssue(orch) =>
             /\ orch.plan = orch.fallback_plan
             /\ orch.tool_runs \in _execute_plan(orch.fallback_plan)
             /\ orch.tool_runs # <<>>
             /\ trace.executions[Len(trace.executions)] = orch.fallback_plan.notes
             /\ orch.pc = "done" =>
                   trace.admissions[Len(trace.admissions)] = summary_tag)
    /\ [][FallbackLeftIssue(orch) /\ orch.pc # "done" =>
             /\ orch'.pc = CASE orch.pc = "after_loop" -> "respond"
                             [] orch.pc = "respond" -> "summarize"
                             [] orch.pc = "summarize" -> "done"
             /\ orch'.tool_runs = orch.tool_runs /\ orch'.plan = orch.plan
             /\ trace'.executions = trace.executions
             /\ trace'.applied = trace.applied
             /\ \A i \in DOMAIN trace'.admissions :
                   i > Len(trace.admissions) => trace'.admissions[i] = summary_tag]_vars

\* after four planner attempts that left an issue the fallback plan ran,
\* its query failed too, and the summarizer answered from its runs
C27_Witness ==
    /\ orch.pc = "done" /\ orch.raised = "" /\ orch.used_fallback
    /\ orch.last_issue # NoIssue /\ orch.attempt = MAX_PLAN_ATTEMPTS
    /\ Len(trace.executions) = MAX_PLAN_ATTEMPTS + 1
    /\ trace.stores = 1
    /\ \E i \in DOMAIN orch.tool_runs : ~orch.tool_runs[i].success


\* C28: a planner output that _parse_plan rejects with PlanParseError becomes
\* the empty plan that needs no data; when the question has a fallback plan,
\* that plan replaces it and is executed in the same attempt; and the
\* planner is never called again, with or without feedback, after it.
ParseFailed(o) ==
    /\ o.plan_content # NoContent
    /\ _parse_plan(o.plan_content).raised = "PlanParseError"
Digests == {i \in DOMAIN exec.runs : ~exec.runs[i].raised}
C29_CompleteDigestShowsEveryRow ==
    \A i \in Digests :
        exec.runs[i].summary.complete_result = "True" =>
            /\ ~exec.runs[i].summary.truncated
            /\ exec.runs[i].summary.omitted_rows = 0
            /\ exec.runs[i].summary.sample_rows = exec.runs[i].summary.row_count
            /\ exec.runs[i].summary.sample_rows = exec.runs[i].outcome.total_rows

\* a listing of exactly MAX_TOOL_ROWS rows and a total of exactly
\* AGGREGATION_THRESHOLD rows, both shown completely
C29_Witness ==
    /\ exec.pc = "returned" /\ Len(exec.runs) = 2
    /\ exec.runs[1].summary.complete_result = "True"
    /\ exec.runs[1].summary.sample_rows = MAX_TOOL_ROWS
    /\ exec.runs[2].summary.complete_result = "True"
    /\ exec.runs[2].summary.sample_rows = AGGREGATION_THRESHOLD
    /\ _is_aggregation_result(exec.runs[2].outcome.columns, AGGREGATION_THRESHOLD)

\* C30: a digest marked complete_result = False says in omitted_rows how
\* many rows of the query's result it does not show: the true row_count
\* minus the rows shown, also when the sandbox cut the result at its cap.
C30_OmittedRowsCountsAllHidden ==
    \A i \in Digests :
        exec.runs[i].summary.complete_result = "False" =>
            /\ exec.runs[i].summary.omitted_rows =
                  exec.runs[i].outcome.total_rows - exec.runs[i].summary.sample_rows
            /\ exec.runs[i].summary.omitted_rows =
                  exec.runs[i].summary.row_count - exec.runs[i].summary.sample_rows

\* the same for the results the sandbox did not truncate
OmittedRowsOfWholeResults ==
    \A i \in Digests :
        (exec.runs[i].summary.complete_result = "False" /\ ~exec.runs[i].summary.truncated) =>
            /\ exec.runs[i].summary.omitted_rows =
                  exec.runs[i].outcome.total_rows - exec.runs[i].summary.sample_rows
            /\ exec.runs[i].summary.omitted_rows > 0


\* C31: a result that _is_aggregation_result takes as an aggregate is shown
\* in full up to a larger number of rows than a detailed listing: whenever a
\* listing of some number of rows is shown in full, an aggregate of the
\* same number of rows is shown in full as well.
IsAggregate(run) ==
    _is_aggregation_result(run.outcome.columns, run.summary.sample_rows + run.summary.omitted_rows)
C31_AggregateShownAtLeastAsFarAsListing ==
    \A i \in Digests, j \in Digests :
        (/\ exec.runs[i].tool # "get_database_schema"
         /\ exec.runs[j].tool # "get_database_schema"
         /\ ~exec.runs[i].outcome.fails /\ ~exec.runs[j].outcome.fails
         /\ exec.runs[i].outcome.total_rows = exec.runs[j].outcome.total_rows
         /\ ~IsAggregate(exec.runs[i]) /\ IsAggregate(exec.runs[j])
         /\ exec.runs[i].summary.complete_result = "True")
        => exec.runs[j].summary.complete_result = "True"

\* up to AGGREGATION_THRESHOLD rows both kinds of result are shown in full
AggregateAndListingBelowThreshold ==
    \A i \in Digests :
        (/\ exec.runs[i].tool # "get_database_schema" /\ ~exec.runs[i].outcome.fails
         /\ exec.runs[i].outcome.total_rows \in 1..AGGREGATION_THRESHOLD)
        => exec.runs[i].summary.complete_result = "True"


\* C32: whatever tool of the catalog is called and whatever its arguments,
\* a limit chosen by the caller included, the result of call_tool holds at
\* most MAX_RESULT_ROWS rows.
C32_EveryResultWithinRowCap ==
    \A i \in DOMAIN exec.called : exec.called[i].result.rows <= MAX_RESULT_ROWS

\* the same for the tools that go through execute_query
QueryToolResultsWithinRowCap ==
    \A i \in DOMAIN exec.called :
        exec.called[i].tool # "get_vendor_invoices" =>
            /\ exec.called[i].result.rows <= MAX_RESULT_ROWS
            /\ exec.called[i].result.truncated =>
                  exec.called[i].outcome.total_rows > MAX_RESULT_ROWS


\* C33: execute_query calls that run at the same time on the query cache,
\* which no lock protects, can at worst serve or leave an entry that is
\* stale or stored twice: no interleaving of their lookups, deletions and
\* insertions makes a call raise, or return an error the store did not give.
C33_CacheRaceNeverRaises ==
    \A t \in Threads :
        /\ sb[t].raised = ""
        /\ (sb[t].pc = "done" /\ ~sb[t].result.success /\ _validate_query(sb[t].sql).valid)
              => sb[t].executed


\* C34: between two resets every caller of get_rate_limiter gets the same
\* LLMRateLimiter, also the callers that race on the first call: two calls
\* that ran with no reset around them have returned one instance.
BetweenResets(c) == c.since = c.until
C34_OneLimiterBetweenResets ==
    \A c \in obtained, d \in obtained :
        (BetweenResets(c) /\ BetweenResets(d) /\ c.since = d.since)
            => c.instance = d.instance /\ c.instance # 0


\* C35: an admitted entry stops counting toward the per-minute request and
\* token totals once it is older than 60 s and toward the per-day totals once
\* it is older than 24 h: what _current_usage leaves in the windows (in
\* check_and_wait and in get_stats) has no older entry.  An entry pruned
\* from the day window is gone from the lookup table too, and from then on
\* record_actual_tokens and cancel_request for its id change no window total.
NoExpired ==
    /\ \A i \in Range(minute_requests) : entry[i].age <= MINUTE
    /\ \A i \in Range(day_requests) : entry[i].age <= DAY
    /\ \A i \in entries : i \in Range(day_requests)
WindowTotals ==
    [rpm |-> Len(minute_requests), rpd |-> Len(day_requests),
     tpm |-> SumTokens(entry, minute_requests), tpd |-> SumTokens(entry, day_requests)]
C35_ExpiredEntriesStopCounting ==
    [][/\ (GetStats \/ \E t \in Threads : Check(t)) => NoExpired'
       /\ \A id \in 0..(next_id - 1) :
             (id \notin Range(day_requests) /\ NoExpired) =>
                 /\ id \notin entries
                 /\ \A p \in PromptTokens, c \in CompletionTokens :
                       (record_actual_tokens(id, p, c) \/ cancel_request(id))
                           => WindowTotals' = WindowTotals]_vars

\* entry 0 was admitted, never cancelled and has left the day window and the
\* lookup table; entry 1 is older than a minute and counts for the day only
C35_Witness ==
    /\ next_id = 2
    /\ SumRequests(usage_breakdown, DOMAIN usage_breakdown) = 2
    /\ entries = {1}
    /\ day_requests = <<1>>
    /\ minute_requests = <<>>
    /\ entry[1].age > MINUTE


\* C36: whatever the planner model returns, a plan produced by _parse_plan
\* has at most the three steps the planner prompt allows, and so one
\* planning attempt executes at most three tools.
ParsedAttempt == exec.content # <<>>
C36_ParsedPlanWithinPromptMaximum ==
    ParsedAttempt =>
        /\ Len(exec.plan.steps) <= PromptMaxSteps
        /\ Len(exec.tool_runs) <= PromptMaxSteps

\* a parsed plan has no more steps than the planner wrote, and the attempt
\* executes one tool per step of the plan
ParsedPlanWithinWrittenSteps ==
    ParsedAttempt =>
        /\ Len(exec.plan.steps) <= Len(exec.content[1].steps)
        /\ exec.pc = "attempted" /\ exec.plan.needs_data
              => Len(exec.tool_runs) = Len(exec.plan.steps)


\* C37 (as claimed): in every reachable state of the limiter the token sum
\* of the minute window is at most tpm_limit and the token sum of the day
\* window is at most tpd_limit.
TokenSumsWithinCeilings ==
    /\ SumTokens(entry, minute_requests) <= tpm_limit
    /\ SumTokens(entry, day_requests) <= tpd_limit
C37_TokenSumsWithinCeilings == TokenSumsWithinCeilings

\* C37 (amended): a token sum goes from within its ceiling to beyond it only
\* when record_actual_tokens writes a live entry's actual total; admissions,
\* cancellations, retagging and expiries never take a sum beyond its ceiling,
\* and right after an admission both sums are within their ceilings.
C37_OnlyCorrectionsExceedCeilings ==
    [][/\ (TokenSumsWithinCeilings /\ ~TokenSumsWithinCeilings') =>
              \E id \in entries, p \in PromptTokens, c \in CompletionTokens :
                  record_actual_tokens(id, p, c)
       /\ next_id' # next_id => TokenSumsWithinCeilings']_vars

\* a correction has put both token sums beyond their ceilings
C37_Witness ==
    /\ SumTokens(entry, minute_requests) > tpm_limit
    /\ SumTokens(entry, day_requests) > tpd_limit
    /\ \E i \in entries : entry[i].finalized


\* C38: after every completed operation of the limiter the ids of the minute
\* window are among the ids of the day window, the ids of the day window
\* are exactly the keys of the lookup table, and no id is twice in a window.
\* Every operation runs under the lock, so this is a property of every state.
NoDuplicates(s) == \A i, j \in DOMAIN s : s[i] = s[j] => i = j
C38_WindowsAndTableAgree ==
    /\ Range(minute_requests) \subseteq Range(day_requests)
    /\ Range(day_requests) = entries
    /\ NoDuplicates(minute_requests)
    /\ NoDuplicates(day_requests)

\* two live entries of which the older one has left the minute window only,
\* after an entry before them was cancelled or pruned
C38_Witness ==
    /\ next_id = 3
    /\ Len(day_requests) = 2
    /\ Len(minute_requests) = 1
    /\ Cardinality(entries) = 2


\* C39: each tag's requests counter moves by exactly one per event: up by one
\* for an entry admitted under the tag or retagged to it, down by one for an
\* entry of the tag cancelled or retagged away.  It is never below the
\* number of live entries of the tag, so it never goes negative and the
\* max(0, ...) clamp never decides; retag_entry leaves the sum over the tags
\* and every window total unchanged.
Requests(ub, tag) == IF tag \in DOMAIN ub THEN ub[tag].requests ELSE 0
LiveWithTag(tag) == {i \in entries : entry[i].tag = tag}
RequestsMove(tag, delta) ==
    Requests(usage_breakdown', tag) = Requests(usage_breakdown, tag) + delta
C39_RequestCountersAreExact ==
    /\ [](\A tag \in Tags : Requests(usage_breakdown, tag) >= Cardinality(LiveWithTag(tag)))
    /\ [][/\ next_id' # next_id =>
                \A tag \in Tags :
                    RequestsMove(tag, IF entry'[next_id].tag = tag THEN 1 ELSE 0)
          /\ \A id \in entries :
                cancel_request(id) =>
                    \A tag \in Tags :
                        RequestsMove(tag, IF entry[id].tag = tag THEN 0 - 1 ELSE 0)
          /\ \A id \in entries : \A new_tag \in Tags \ {entry[id].tag} :
                retag_entry(id, new_tag) =>
                    /\ \A tag \in Tags :
                          RequestsMove(tag, IF tag = new_tag THEN 1
                                            ELSE IF tag = entry[id].tag THEN 0 - 1 ELSE 0)
                    /\ SumRequests(usage_breakdown', DOMAIN usage_breakdown')
                          = SumRequests(usage_breakdown, DOMAIN usage_breakdown)
                    /\ WindowTotals' = WindowTotals]_vars

\* the only entry admitted so far was retagged: its first tag counts zero
\* requests and its new tag one
C39_Witness ==
    /\ next_id = 1
    /\ entries = {0}
    /\ \E old \in Tags :
          /\ Requests(usage_breakdown, old) = 0
          /\ old \in DOMAIN usage_breakdown
          /\ entry[0].tag # old
          /\ Requests(usage_breakdown, entry[0].tag) = 1


\* C40: a check_and_wait call whose estimate alone exceeds tpm_limit or
\* tpd_limit is never admitted and never returns: once it has the lock it
\* goes from check to sleep and from sleep to check for ever.
Oversize(t) ==
    pc[t] # "idle" /\ (call[t].est > tpm_limit \/ call[t].est > tpd_limit)
C40_OversizeCallLoopsForever ==
    /\ [][\A t \in Threads :
             Oversize(t) => (Oversize(t)' /\ (Check(t) => next_id' = next_id))]_vars
    /\ \A t \in Threads : (Oversize(t) /\ pc[t] = "check") ~> (pc[t] = "sleep")
    /\ \A t \in Threads : (Oversize(t) /\ pc[t] = "sleep") ~> (pc[t] = "check")

\* an oversize call has slept once and is checking again
C40_Witness ==
    \E t \in Threads : Oversize(t) /\ pc[t] = "check" /\ call[t].waited
=========================================================================
